---- MODULE Spec2Model ----
(***************************************************************************)
(* A model of the hr-app analytics core (swwwjjw/hr-app):                  *)
(*   backend/hh_parser_ver2.py  normalize_salary, compute_employer_marks,  *)
(*                              estimate_monthly_salary_from_text          *)
(*                              extract_vacancy_fields, parse_vacancies    *)
(*                              _parse_ruble_amount, fetch_vacancies       *)
(*   backend/analytics.py       salary_stats, hourly_rate_stats            *)
(*   backend/hh_snapshot_scheduler.py                                      *)
(*                              HHSchedulerState: run_once, _loop, start,  *)
(*                              stop, and POST /hh-snapshot/run            *)
(*                                                                         *)
(* Numbers.  Money is written in kopecks (1/100 ruble): Rub(13000) is the  *)
(* code's 13000.0, and Num(k) is the Python number nearest to k / 100.     *)
(* salary_stats and hourly_rate_stats compute in floats, and the model     *)
(* does their arithmetic as IEEE 754 doubles (see "Python floats" below),  *)
(* so that round(x, 2) rounds the float the code has and not the exact     *)
(* quotient.  The other functions are given whole rubles (or half rubles,  *)
(* the mean of two whole bounds), for which Python's float arithmetic is   *)
(* exact in every expression modelled for them.                            *)
(*                                                                         *)
(* Values.  Python values that may be None, a number or something else are *)
(* tagged records: None, Num(x), Text(s) (a string; Str is some non-empty   *)
(* string, standing for any non-numeric, non-None scalar).                 *)
(* dict.get(key) of an absent key is None, so an absent key and a key      *)
(* holding None are the same value None wherever the code reads with .get. *)
(***************************************************************************)
EXTENDS Integers, Sequences, FiniteSets, TLC

VARIABLES
    pc,     \* the function that has returned: "start" before any call
    arg,    \* the argument of the call (the input drawn in Init)
    ret,    \* the value the call returned (None before any call)
    state   \* the locals and objects of a call that runs in steps: the locals
            \* of fetch_vacancies, the HHSchedulerState and its tasks; None in
            \* the specifications of the functions above

vars == <<pc, arg, ret, state>>

-----------------------------------------------------------------------------
(* Python values *)

None == [t |-> "None"]
Num(x) == [t |-> "num", v |-> x]
Text(s) == [t |-> "str", s |-> s]
Str == Text("abc")

\* isinstance(x, (int, float))
IsNumeric(x) == x.t = "num"

\* n rubles, in kopecks
Rub(n) == n * 100

\* sum(values) of a sequence of integers
RECURSIVE Sum(_)
Sum(s) == IF s = <<>> THEN 0 ELSE Head(s) + Sum(Tail(s))

-----------------------------------------------------------------------------
(* hh_parser_ver2.normalize_salary *)

\* A salary dict: each key is Absent, or holds None, a number or a string.
Absent == [t |-> "absent"]
Dict(a, f, to_, c) == [t |-> "dict", amount |-> a, from |-> f, to |-> to_, currency |-> c]

\* salary.get(key): an absent key reads as None
Get(field) == IF field = Absent THEN None ELSE field

\* bool(x): None, the empty dict, the empty string and 0 are falsy
Truthy(x) ==
    CASE x.t = "None" -> FALSE
      [] x.t = "dict" -> \E k \in {"amount", "from", "to", "currency"} : x[k] # Absent
      [] x.t = "num" -> x.v # 0
      [] x.t = "str" -> Len(x.s) > 0
      [] OTHER -> TRUE

\* normalize_salary with the range looked at before the amount
normalize_salary_amount_first(salary) ==
    IF ~Truthy(salary) THEN None
    ELSE LET amount_from == IF salary.t = "dict" THEN Get(salary.from) ELSE None
             amount_to == IF salary.t = "dict" THEN Get(salary.to) ELSE None
             values == SelectSeq(<<amount_from, amount_to>>, IsNumeric)
             amount_value == IF salary.t = "dict" THEN Get(salary.amount) ELSE None
         IN  IF values # <<>>
             THEN Num(Sum([i \in 1..Len(values) |-> values[i].v]) \div Len(values))
             ELSE IF IsNumeric(amount_value) THEN Num(amount_value.v) ELSE None

normalize_salary(salary) ==
    IF ~Truthy(salary) THEN None
    ELSE LET amount_value == IF salary.t = "dict" THEN Get(salary.amount) ELSE None
             amount_from == IF salary.t = "dict" THEN Get(salary.from) ELSE None
             amount_to == IF salary.t = "dict" THEN Get(salary.to) ELSE None
             values == SelectSeq(<<amount_from, amount_to>>, IsNumeric)
         IN  IF IsNumeric(amount_value) THEN Num(amount_value.v)
             ELSE IF values = <<>> THEN None
             ELSE Num(Sum([i \in 1..Len(values) |-> values[i].v]) \div Len(values))

\* The salary objects the normalizer is called on: no object, a non-dict
\* value, and every dict over the keys amount/from/to/currency.
FieldValues == {Absent, None, Str, Num(0), Num(Rub(100000)), Num(Rub(150000))}
SalaryObjects ==
    {None, Str}
      \cup {Dict(a, f, to_, c) : a \in FieldValues, f \in FieldValues,
                                 to_ \in FieldValues, c \in {Absent, Str}}

InitNormalize == pc = "start" /\ arg \in SalaryObjects /\ ret = None /\ state = None

NormalizeSalary ==
    /\ pc = "start"
    /\ pc' = "normalize_salary"
    /\ ret' = normalize_salary(arg)
    /\ UNCHANGED <<arg, state>>

NextNormalize == NormalizeSalary

SpecNormalize == InitNormalize /\ [][NextNormalize]_vars

-----------------------------------------------------------------------------
(* Normalized vacancy records, as extract_vacancy_fields builds them; the  *)
(* fields the statistics read.                                             *)

Vacancy(per_shift, est, avg, sal, sched) ==
    [salary_per_shift |-> per_shift, salary_estimated_monthly |-> est,
     salary_avg |-> avg, salary |-> sal, schedule |-> sched,
     employer_id |-> None, employer_trusted |-> FALSE]

\* list.sort() of numbers
Sorted(s) == SortSeq(s, LAMBDA a, b : a < b)

-----------------------------------------------------------------------------
(* Python floats.  A float is an IEEE 754 double, m * 2^e with m a whole    *)
(* number of exactly 53 bits (or zero); every operation gives the double    *)
(* nearest to the exact result, a tie going to the even m.  m is written as *)
(* its digits to the base 2^15, lowest first, with no zero digit on top, so *)
(* that every step of the arithmetic stays below 2^31.  The amounts         *)
(* modelled are not negative and far from the ends of the exponent range.   *)

Limb == 2^15

\* The digits of a whole number 0 <= n
RECURSIVE Big(_)
Big(n) == IF n = 0 THEN <<>> ELSE <<n % Limb>> \o Big(n \div Limb)

\* The whole number of the digits, when it is below 2^31
RECURSIVE Small(_)
Small(a) == IF a = <<>> THEN 0 ELSE Head(a) + Limb * Small(Tail(a))

\* Without the zero digits on top
RECURSIVE Trim(_)
Trim(a) == IF a = <<>> \/ a[Len(a)] # 0 THEN a ELSE Trim(SubSeq(a, 1, Len(a) - 1))

\* a + b + c
RECURSIVE BigAdd(_, _, _)
BigAdd(a, b, c) ==
    IF a = <<>> /\ b = <<>> THEN Big(c)
    ELSE LET x == (IF a = <<>> THEN 0 ELSE Head(a)) + (IF b = <<>> THEN 0 ELSE Head(b)) + c
         IN  <<x % Limb>> \o BigAdd(IF a = <<>> THEN a ELSE Tail(a),
                                    IF b = <<>> THEN b ELSE Tail(b), x \div Limb)

\* The digits of a - b - c for a >= b + c, zero digits on top included
RECURSIVE BigSub(_, _, _)
BigSub(a, b, c) ==
    IF a = <<>> THEN <<>>
    ELSE LET x == Head(a) - (IF b = <<>> THEN 0 ELSE Head(b)) - c
         IN  <<(x + Limb) % Limb>> \o BigSub(Tail(a), IF b = <<>> THEN b ELSE Tail(b),
                                             IF x < 0 THEN 1 ELSE 0)

\* a * k + c for 0 <= k <= 2^15
RECURSIVE BigTimes(_, _, _)
BigTimes(a, k, c) ==
    IF a = <<>> THEN Big(c)
    ELSE LET x == Head(a) * k + c
         IN  <<x % Limb>> \o BigTimes(Tail(a), k, x \div Limb)

\* Quotient (zero digits on top included) and remainder of a by 0 < d <= 2^15
RECURSIVE BigDivMod(_, _)
BigDivMod(a, d) ==
    IF a = <<>> THEN [q |-> <<>>, r |-> 0]
    ELSE LET top == BigDivMod(Tail(a), d)
             x == top.r * Limb + Head(a)
         IN  [q |-> <<x \div d>> \o top.q, r |-> x % d]

BigLess(a, b) ==
    IF Len(a) # Len(b) THEN Len(a) < Len(b)
    ELSE \E i \in 1..Len(a) : a[i] < b[i] /\ \A j \in (i + 1)..Len(a) : a[j] = b[j]

\* The number of binary digits of a digit, and of a
RECURSIVE BitsOf(_)
BitsOf(x) == IF x = 0 THEN 0 ELSE 1 + BitsOf(x \div 2)
BitLength(a) == IF a = <<>> THEN 0 ELSE 15 * (Len(a) - 1) + BitsOf(a[Len(a)])

\* a * 2^k and floor(a / 2^k)
ShiftLeft(a, k) == [i \in 1..(k \div 15) |-> 0] \o BigTimes(a, 2^(k % 15), 0)
ShiftRight(a, k) ==
    IF k \div 15 >= Len(a) THEN <<>>
    ELSE Trim(BigDivMod(SubSeq(a, k \div 15 + 1, Len(a)), 2^(k % 15)).q)

\* The binary digit k of a, and whether a digit below it is 1
BitAt(a, k) == IF k \div 15 >= Len(a) THEN 0 ELSE (a[k \div 15 + 1] \div 2^(k % 15)) % 2
AnyBelow(a, k) ==
    \/ \E i \in 1..Len(a) : i <= k \div 15 /\ a[i] # 0
    \/ k \div 15 < Len(a) /\ a[k \div 15 + 1] % 2^(k % 15) # 0

\* a / 2^k, or a little more when `more`, to the nearest whole number, a tie
\* to the even one
Nearest(a, k, more) ==
    LET q == ShiftRight(a, k)
    IN  IF k = 0 THEN q
        ELSE IF BitAt(a, k - 1) = 1 /\ (more \/ AnyBelow(a, k - 1) \/ BitAt(a, k) = 1)
        THEN BigAdd(q, <<>>, 1)
        ELSE q

\* The double nearest to n * 2^e, or to a little more when `more` (n then has
\* more than 54 binary digits)
Double(n, e, more) ==
    LET bits == BitLength(n)
        q == Nearest(n, bits - 53, more)
    IN  IF n = <<>> THEN [m |-> <<>>, e |-> 0]
        ELSE IF bits <= 53 THEN [m |-> ShiftLeft(n, 53 - bits), e |-> e - (53 - bits)]
        ELSE IF BitLength(q) > 53 THEN [m |-> ShiftRight(q, 1), e |-> e + bits - 52]
        ELSE [m |-> q, e |-> e + bits - 53]

\* float(n) of a whole number 0 <= n < 2^31
FloatOf(n) == Double(Big(n), 0, FALSE)

\* x + y
FloatAdd(x, y) ==
    LET e == IF x.e < y.e THEN x.e ELSE y.e
    IN  IF x.m = <<>> THEN y
        ELSE IF y.m = <<>> THEN x
        ELSE Double(BigAdd(ShiftLeft(x.m, x.e - e), ShiftLeft(y.m, y.e - e), 0), e, FALSE)

\* x < y
FloatLess(x, y) ==
    IF y.m = <<>> THEN FALSE
    ELSE IF x.m = <<>> THEN TRUE
    ELSE x.e < y.e \/ (x.e = y.e /\ BigLess(x.m, y.m))

\* x - y for x >= y
FloatSub(x, y) ==
    IF y.m = <<>> THEN x
    ELSE Double(Trim(BigSub(ShiftLeft(x.m, x.e - y.e), y.m, 0)), y.e, FALSE)

\* x * (k / 2^s) for a whole number 0 <= k <= 2^15
FloatTimes(x, k, s) == Double(BigTimes(x.m, k, 0), x.e - s, FALSE)

\* x / d for a whole number 0 < d <= 2^15
FloatDiv(x, d) ==
    LET qr == BigDivMod(ShiftLeft(x.m, 30), d)
    IN  Double(Trim(qr.q), x.e - 30, qr.r # 0)

\* round(x, 2) in hundredths: the whole number nearest to x * 100, a tie to
\* the even one.  The float returned is the double nearest to that many
\* hundredths.
round2(x) ==
    LET n == BigTimes(x.m, 100, 0)
    IN  IF x.e >= 0 THEN Small(ShiftLeft(n, x.e)) ELSE Small(Nearest(n, 0 - x.e, FALSE))

\* The float of an amount of k hundredths, as Python reads the literal
Hundredths(k) == FloatDiv(FloatOf(k), 100)

\* The floats of a list of amounts in hundredths
Floats(amounts) == [i \in 1..Len(amounts) |-> Hundredths(amounts[i])]

\* sum(values): 0 + values[0] + values[1] + ..., each sum rounded
RECURSIVE FloatSum(_, _)
FloatSum(values, total) ==
    IF values = <<>> THEN total
    ELSE LET next == FloatAdd(total, Head(values))
         IN  IF next.e = next.e THEN FloatSum(Tail(values), next) ELSE next

-----------------------------------------------------------------------------
(* analytics.salary_stats *)

MIN_VALID_MONTHLY == Rub(13000)

\* s is not None and float(s) >= MIN_VALID_MONTHLY
IsValidMonthly_strict(s) == s # None /\ s.v > Rub(13000)

IsValidMonthly(s) == s # None /\ s.v >= MIN_VALID_MONTHLY

\* The loop of the older salary_stats: a per-shift record is skipped
Candidate_skip_per_shift(v) ==
    IF v.salary_per_shift THEN None
    ELSE LET val == IF v.salary_avg = None THEN normalize_salary(v.salary)
                    ELSE v.salary_avg
         IN  IF IsNumeric(val) THEN val ELSE None

\* One pass of the loop over vacancies: the value appended to raw
Candidate(v) ==
    IF v.salary_per_shift
    THEN LET est == v.salary_estimated_monthly
         IN  IF IsNumeric(est) THEN est ELSE None
    ELSE LET val == IF v.salary_avg = None THEN normalize_salary(v.salary)
                    ELSE v.salary_avg
         IN  IF IsNumeric(val) THEN val ELSE None

raw(vacancies) == [i \in 1..Len(vacancies) |-> Candidate(vacancies[i])]

\* salaries, after salaries.sort()
salaries(vacancies) ==
    LET kept == SelectSeq(raw(vacancies), IsValidMonthly)
    IN  Sorted([i \in 1..Len(kept) |-> kept[i].v])

\* percentile without the interpolation: the value at floor(idx)
percentile_nearest_rank(sorted_arr, p4) ==
    sorted_arr[((Len(sorted_arr) - 1) * p4) \div 4 + 1]

\* percentile(sorted_arr, p) of a sorted list of floats for p = p4 / 4: with
\* idx = (len - 1) * p the value
\* float(sorted_arr[lo]) * (1 - frac) + float(sorted_arr[hi]) * frac, where frac
\* is a number of quarters.
\* (Sequences count from 1: sorted_arr[lo] of the code is sorted_arr[lo + 1].)
percentile(sorted_arr, p4) ==
    LET idx4 == (Len(sorted_arr) - 1) * p4
        lo == idx4 \div 4
        frac4 == idx4 % 4
    IN  IF frac4 = 0 THEN sorted_arr[lo + 1]
        ELSE FloatAdd(FloatTimes(sorted_arr[lo + 1], 4 - frac4, 2),
                      FloatTimes(sorted_arr[lo + 2], frac4, 2))

\* s[1:], the cut at the wrong end
DropFirst(s) == Tail(s)

\* s[:-1]
DropLast(s) == SubSeq(s, 1, Len(s) - 1)

\* med_small taken one position too low
med_small2_off_by_one(sal) ==
    LET n == Len(sal)
    IN  IF n % 2 = 1
        THEN FloatTimes(sal[(n + 1) \div 2 - (IF n > 1 THEN 1 ELSE 0)], 2, 0)
        ELSE FloatAdd(sal[n \div 2], sal[n \div 2 + 1])

\* 2 * med_small of a sample of n < 4 sorted floats: halving and doubling a
\* float are exact, so for an even n it is the float sum of the middle two
med_small2(sal) ==
    LET n == Len(sal)
    IN  IF n % 2 = 1 THEN FloatTimes(sal[n \div 2 + 1], 2, 0)
        ELSE FloatAdd(sal[n \div 2], sal[n \div 2 + 1])

\* salaries[-1] > 2 * med_small
AboveTwiceMedian(sal) == FloatLess(med_small2(sal), sal[Len(sal)])

\* high_cut = q3 + 1.5 * iqr with iqr = q3 - q1 > 0
high_cut(q1, q3) == FloatAdd(q3, FloatTimes(FloatSub(q3, q1), 3, 1))

\* s <= high_cut
WithinFence(s, cut) == ~FloatLess(cut, s)

\* [s for s in salaries if keep(s)], where values are the floats of salaries
Where(sal, values, keep(_)) ==
    LET at == SelectSeq([i \in 1..Len(sal) |-> i], LAMBDA i : keep(values[i]))
    IN  [j \in 1..Len(at) |-> sal[at[j]]]

\* The outlier stage: from the sorted salaries (in hundredths) to the list
\* the summary is taken of; values are the salaries as floats
filtered(sal) ==
    LET n == Len(sal)
        values == Floats(sal)
        f == IF n >= 4
             THEN LET q1 == percentile(values, 1)
                      q3 == percentile(values, 3)
                  IN  IF FloatLess(q1, q3)
                      THEN LET fence == high_cut(q1, q3)
                               cut == Where(sal, values, LAMBDA s : WithinFence(s, fence))
                           IN  IF Len(cut) < 3 /\ n >= 3
                               THEN (IF n > 1 THEN DropLast(sal) ELSE sal)
                               ELSE cut
                      ELSE sal
             ELSE IF n >= 2 /\ AboveTwiceMedian(values) THEN DropLast(sal) ELSE sal
    IN  IF f = <<>> THEN sal ELSE f

EmptySummary == [count |-> 0, avg |-> None, median |-> None, min |-> None, max |-> None]

\* The summary with the upper middle element as the median of an even list
Summary_upper_median(values) ==
    LET n == Len(values)
    IN  [count |-> n,
         avg |-> Num(round2(FloatDiv(FloatSum(values, FloatOf(0)), n))),
         median |-> Num(round2(values[n \div 2 + 1])),
         min |-> Num(round2(values[1])),
         max |-> Num(round2(values[n]))]

\* count, and avg, median, min, max each rounded to 2 decimals, of a sorted
\* non-empty list of floats: avg = sum(values) / n, and the median of an even
\* n is (values[n // 2 - 1] + values[n // 2]) / 2
Summary(values) ==
    LET n == Len(values)
    IN  [count |-> n,
         avg |-> Num(round2(FloatDiv(FloatSum(values, FloatOf(0)), n))),
         median |-> IF n % 2 = 1 THEN Num(round2(values[n \div 2 + 1]))
                    ELSE Num(round2(FloatTimes(FloatAdd(values[n \div 2],
                                                        values[n \div 2 + 1]), 1, 1))),
         min |-> Num(round2(values[1])),
         max |-> Num(round2(values[n]))]

\* salary_stats with zeros in place of nulls in the empty summary
salary_stats_zero_filled(vacancies) ==
    LET sal == salaries(vacancies)
    IN  IF sal = <<>>
        THEN [count |-> 0, avg |-> Num(0), median |-> Num(0), min |-> Num(0), max |-> Num(0)]
        ELSE Summary(Floats(filtered(sal)))

salary_stats(vacancies) ==
    LET sal == salaries(vacancies)
    IN  IF sal = <<>> THEN EmptySummary ELSE Summary(Floats(filtered(sal)))

-----------------------------------------------------------------------------
(* analytics.hourly_rate_stats *)

HOURS_PER_MONTH == 164
MIN_HOURLY_SALARY == Rub(10000)

\* The salary of a record that passes every `continue` of the loop, else None
HourlySalary(v) ==
    IF v.salary_per_shift THEN None
    ELSE LET salary == IF v.salary_avg = None THEN normalize_salary(v.salary)
                       ELSE v.salary_avg
         IN  IF salary = None \/ ~IsNumeric(salary) THEN None
             ELSE IF salary.v < MIN_HOURLY_SALARY THEN None
             ELSE IF ~Truthy(v.schedule) THEN None
             ELSE salary

\* hourly_rates after the sort, each rate float(salary) / HOURS_PER_MONTH: the
\* rates sort as the salaries do
hourly_rates(vacancies) ==
    LET all == [i \in 1..Len(vacancies) |-> HourlySalary(vacancies[i])]
        kept == SelectSeq(all, LAMBDA s : s # None)
        sorted == Sorted([i \in 1..Len(kept) |-> kept[i].v])
    IN  [i \in 1..Len(sorted) |-> FloatDiv(Hundredths(sorted[i]), HOURS_PER_MONTH)]

\* hourly_rate_stats that takes the outlier stage of salary_stats first
hourly_rate_stats_with_outlier_filter(vacancies) ==
    LET all == [i \in 1..Len(vacancies) |-> HourlySalary(vacancies[i])]
        kept == SelectSeq(all, LAMBDA s : s # None)
        sorted == filtered(Sorted([i \in 1..Len(kept) |-> kept[i].v]))
        rates == [i \in 1..Len(sorted) |-> FloatDiv(Hundredths(sorted[i]), HOURS_PER_MONTH)]
    IN  IF rates = <<>> THEN EmptySummary ELSE Summary(rates)

\* hourly_rate_stats, lines 80-127
hourly_rate_stats(vacancies) ==
    LET rates == hourly_rates(vacancies)
    IN  IF rates = <<>> THEN EmptySummary ELSE Summary(rates)

\* All lists of at most n members of S
SeqsUpTo(S, n) == UNION {[1..k -> S] : k \in 0..n}

SalaryStats ==
    /\ pc = "start"
    /\ pc' = "salary_stats"
    /\ ret' = salary_stats(arg)
    /\ UNCHANGED <<arg, state>>

HourlyRateStats ==
    /\ pc = "start"
    /\ pc' = "hourly_rate_stats"
    /\ ret' = hourly_rate_stats(arg)
    /\ UNCHANGED <<arg, state>>

NextStats == SalaryStats \/ HourlyRateStats

\* Records of every shape the selection rules tell apart, in short lists
MaxRecs == 2
FullDay == Text("full_day")
PerShiftRecords ==
    {Vacancy(TRUE, est, avg, None, FullDay) :
        est \in {None, Str, Num(Rub(12999)), Num(Rub(13000)), Num(Rub(70000))},
        avg \in {None, Num(Rub(120000))}}
MonthlyRecords ==
    {Vacancy(FALSE, None, x[1], x[2], sched) :
        x \in ({Str, Num(Rub(9999)), Num(Rub(10000)), Num(Rub(12999)), Num(Rub(13000)),
                Num(Rub(120000)), Num(Rub(164000))} \X {None})
              \cup ({None} \X {None, Dict(Absent, Num(Rub(100000)), Num(Rub(150000)), Absent),
                               Dict(Absent, Num(Rub(12000)), Num(Rub(13999)), Absent),
                               Dict(Absent, Num(Rub(13000)), None, Absent)}),
        sched \in {None, Text(""), FullDay}}
StatRecords == PerShiftRecords \cup MonthlyRecords

InitStats == pc = "start" /\ arg \in SeqsUpTo(StatRecords, MaxRecs) /\ ret = None /\ state = None

SpecStats == InitStats /\ [][NextStats]_vars

\* Samples of monthly salaries, long enough for the quartile fence
MaxSample == 5
SampleValues ==
    {Rub(12999), Rub(40000), Rub(45000), Rub(50000), Rub(55000), Rub(300000), Rub(500000)}
SampleRecords == {Vacancy(FALSE, None, Num(x), None, FullDay) : x \in SampleValues}

InitSample == pc = "start" /\ arg \in SeqsUpTo(SampleRecords, MaxSample) /\ ret = None /\ state = None

NextSample == SalaryStats

SpecSample == InitSample /\ [][NextSample]_vars

\* Records hourly_rate_stats tells apart, in lists long enough for the outlier
\* rules of salary_stats to act on them: 500000 among three values of 40000
\* is above twice the median and above the quartile fence
MaxHourly == 4
HourlyRecords ==
    {Vacancy(FALSE, None, Num(x), None, FullDay) :
        x \in {Rub(9999), Rub(10000), Rub(40000), Rub(164000), Rub(500000)}}
    \cup {Vacancy(FALSE, None, Num(Rub(40000)), None, None),
          Vacancy(FALSE, None, Num(Rub(40000)), None, Text("")),
          Vacancy(FALSE, None, None, Dict(Absent, Num(Rub(100000)), Num(Rub(150000)), Absent), FullDay),
          Vacancy(TRUE, Num(Rub(70000)), Num(Rub(120000)), None, FullDay)}

InitHourly == pc = "start" /\ arg \in SeqsUpTo(HourlyRecords, MaxHourly) /\ ret = None /\ state = None

NextHourly == HourlyRateStats

SpecHourly == InitHourly /\ [][NextHourly]_vars

-----------------------------------------------------------------------------
(* Exact fractions, for the floats of compute_employer_marks *)

RECURSIVE GCD(_, _)
GCD(a, b) == IF b = 0 THEN a ELSE GCD(b, a % b)

\* n / d in lowest terms, d > 0
Rat(n, d) ==
    LET g == GCD(IF n < 0 THEN -n ELSE n, d)
    IN  [n |-> n \div g, d |-> d \div g]

RAdd(a, b) == Rat(a.n * b.d + b.n * a.d, a.d * b.d)
RMul(a, b) == Rat(a.n * b.n, a.d * b.d)
RLess(a, b) == a.n * b.d < b.n * a.d
RMax(a, b) == IF RLess(a, b) THEN b ELSE a
RMin(a, b) == IF RLess(b, a) THEN b ELSE a

\* min(...) and max(...) of a non-empty list of integers
MinOf(s) == CHOOSE x \in {s[i] : i \in 1..Len(s)} : \A i \in 1..Len(s) : x <= s[i]
MaxOf(s) == CHOOSE x \in {s[i] : i \in 1..Len(s)} : \A i \in 1..Len(s) : x >= s[i]

-----------------------------------------------------------------------------
(* hh_parser_ver2.compute_employer_marks *)

\* A parsed item as the marks read it
Item(eid, trusted, avg) ==
    [Vacancy(FALSE, None, avg, None, None) EXCEPT !.employer_id = eid, !.employer_trusted = trusted]

\* A variant that weighs the vacancy count 0.2 and leaves the clamp out
MarkOf_unclamped_weights(trusted_score, salary_rate, avg_salary_norm, count_norm) ==
    LET mark == RAdd(RAdd(RMul(Rat(4, 10), trusted_score), RMul(Rat(3, 10), salary_rate)),
                     RAdd(RMul(Rat(2, 10), avg_salary_norm), RMul(Rat(2, 10), count_norm)))
    IN  RAdd(Rat(1, 1), RMul(mark, Rat(4, 1)))

\* mark = 0.4 * trusted + 0.3 * rate + 0.2 * level + 0.1 * count, mapped to
\* 1 + 4 * mark and clamped to [1, 5]
MarkOf(trusted_score, salary_rate, avg_salary_norm, count_norm) ==
    LET mark == RAdd(RAdd(RMul(Rat(4, 10), trusted_score), RMul(Rat(3, 10), salary_rate)),
                     RAdd(RMul(Rat(2, 10), avg_salary_norm), RMul(Rat(1, 10), count_norm)))
        scaled == RAdd(Rat(1, 1), RMul(mark, Rat(4, 1)))
    IN  RMax(Rat(1, 1), RMin(Rat(5, 1), scaled))

\* The marks dict, a function on the employer ids that were counted
compute_employer_marks(parsed_items) ==
    LET \* the items the first loop does not `continue` past
        counted == SelectSeq(parsed_items, LAMBDA v : Truthy(v.employer_id))
        with_avg == SelectSeq(counted, LAMBDA v : IsNumeric(v.salary_avg))
        of(e, items) == SelectSeq(items, LAMBDA v : v.employer_id = e)
        eids == {counted[i].employer_id : i \in 1..Len(counted)}
        employer_to_total == [e \in eids |-> Len(of(e, counted))]
        employer_to_trusted ==
            [e \in eids |-> \E i \in 1..Len(counted) :
                                counted[i].employer_id = e /\ counted[i].employer_trusted]
        employer_to_salaries ==
            [e \in eids |-> [i \in 1..Len(of(e, with_avg)) |-> of(e, with_avg)[i].salary_avg.v]]
        all_salaries == [i \in 1..Len(with_avg) |-> with_avg[i].salary_avg.v]
        salary_min == IF all_salaries # <<>> THEN MinOf(all_salaries) ELSE 0
        salary_max == IF all_salaries # <<>> THEN MaxOf(all_salaries) ELSE Rub(1)
        denom == IF salary_max > salary_min THEN salary_max - salary_min ELSE Rub(1)
        max_count == IF eids # {} THEN MaxOf([i \in 1..Len(counted) |->
                                                employer_to_total[counted[i].employer_id]])
                     ELSE 1
    IN  [eid \in eids |->
            LET total == employer_to_total[eid]
                trusted_score == IF employer_to_trusted[eid] THEN Rat(1, 1) ELSE Rat(0, 1)
                with_salary == Len(employer_to_salaries[eid])
                salary_rate == IF total > 0 THEN Rat(with_salary, total) ELSE Rat(0, 1)
                sal == employer_to_salaries[eid]
                avg_salary == IF sal # <<>> THEN Rat(Sum(sal), Len(sal)) ELSE Rat(salary_min, 1)
                \* (avg_salary - salary_min) / denom
                avg_salary_norm == Rat(avg_salary.n - salary_min * avg_salary.d,
                                       avg_salary.d * denom)
                count_norm == IF max_count > 0 THEN Rat(total, max_count) ELSE Rat(0, 1)
            IN  MarkOf(trusted_score, salary_rate, avg_salary_norm, count_norm)]

ComputeEmployerMarks ==
    /\ pc = "start"
    /\ pc' = "compute_employer_marks"
    /\ ret' = compute_employer_marks(arg)
    /\ UNCHANGED <<arg, state>>

\* Parsed items of two employers and of none, with and without a salary_avg
MaxItems == 3
EmployerIds == {Text("e1"), Text("e2")}
ParsedItems ==
    {Item(e, tr, avg) : e \in EmployerIds, tr \in BOOLEAN,
                        avg \in {None, Num(Rub(50000)), Num(Rub(100000)), Num(Rub(200000))}}
      \cup {Item(None, FALSE, Num(Rub(30000))), Item(Text(""), TRUE, None)}

InitMarks == pc = "start" /\ arg \in SeqsUpTo(ParsedItems, MaxItems) /\ ret = None /\ state = None

NextMarks == ComputeEmployerMarks

SpecMarks == InitMarks /\ [][NextMarks]_vars

-----------------------------------------------------------------------------
(* C1 *)

\* The numeric ones among the from and to of a dict
NumericBounds(salary) ==
    {salary[k].v : k \in {k \in {"from", "to"} : salary[k].t = "num"}}

\* C1: normalize_salary returns the numeric amount when the object has one,
\* whatever from/to hold; otherwise the mean of the numeric ones among
\* from/to (the single bound if only one is numeric); and None when the
\* object is absent, empty, or has no numeric field among the three.
\* {from: 100000, to: 150000} gives 125000.
C1_NormalizeSalary ==
    pc = "normalize_salary" =>
      /\ (arg.t = "dict" /\ arg.amount.t = "num") => ret = Num(arg.amount.v)
      /\ (arg.t = "dict" /\ arg.amount.t # "num") =>
            LET b == NumericBounds(arg)
                f == arg.from
                t2 == arg.to
            IN  /\ (f.t = "num" /\ t2.t = "num") => (ret.t = "num" /\ 2 * ret.v = f.v + t2.v)
                /\ (f.t = "num" /\ t2.t # "num") => ret = Num(f.v)
                /\ (f.t # "num" /\ t2.t = "num") => ret = Num(t2.v)
                /\ (b = {}) => ret = None
      /\ (arg.t # "dict") => ret = None
      /\ (arg = Dict(Absent, Absent, Absent, Absent)) => ret = None
      /\ (arg = Dict(Absent, Num(Rub(100000)), Num(Rub(150000)), Absent)) => ret = Num(Rub(125000))

\* A dict with a numeric amount and two different numeric bounds was normalized
C1_Witness ==
    /\ pc = "normalize_salary"
    /\ arg.t = "dict" /\ arg.amount.t = "num" /\ arg.from.t = "num" /\ arg.to.t = "num"
    /\ arg.from.v # arg.amount.v /\ arg.to.v # arg.from.v
    /\ ret = Num(arg.amount.v)

-----------------------------------------------------------------------------
(* C2 *)

\* A numeric value, or None for anything else
NumericOrNone(x) == IF x.t = "num" THEN x ELSE None

\* The salary the claims call resolved: salary_avg, else the normalized
\* salary object
Resolved(v) == IF v.salary_avg # None THEN v.salary_avg ELSE normalize_salary(v.salary)

\* The one value a record contributes: the estimate of a per-shift record,
\* the resolved salary of any other
Chosen(v) ==
    NumericOrNone(IF v.salary_per_shift THEN v.salary_estimated_monthly ELSE Resolved(v))

\* A record that carries x as its salary_avg and nothing else
Only(x) == Vacancy(FALSE, None, x, None, None)

\* The positions whose chosen value is a number of at least 13 000 rubles
Eligible(vacancies) ==
    {i \in 1..Len(vacancies) :
        Chosen(vacancies[i]).t = "num" /\ Chosen(vacancies[i]).v >= Rub(13000)}

\* C2: salary_stats takes exactly one value per record: of a per-shift record
\* its salary_estimated_monthly only (salary_avg ignored), of any other its
\* salary_avg, else normalize_salary(salary). The summary is that of the
\* chosen values alone, each counted once; a per-shift estimate 70000 and a
\* salary_avg 120000 give count 2.
C2_OneCandidatePerRecord ==
    pc = "salary_stats" =>
      /\ ret = salary_stats([i \in 1..Len(arg) |-> Only(Chosen(arg[i]))])
      /\ Cardinality(Eligible(arg)) <= 2 => ret.count = Cardinality(Eligible(arg))
      /\ ret.count <= Cardinality(Eligible(arg))
      /\ arg = <<Vacancy(TRUE, Num(Rub(70000)), None, None, FullDay),
                 Vacancy(FALSE, None, Num(Rub(120000)), None, FullDay)>>
            => (ret.count = 2 /\ ret.min = Num(Rub(70000)) /\ ret.max = Num(Rub(120000)))

\* A per-shift record with both an estimate and a salary_avg, next to a record
\* resolved from its salary object: both counted, the salary_avg ignored
C2_Witness ==
    /\ pc = "salary_stats" /\ Len(arg) = 2
    /\ arg[1].salary_per_shift /\ arg[1].salary_estimated_monthly = Num(Rub(70000))
    /\ arg[1].salary_avg = Num(Rub(120000))
    /\ ~arg[2].salary_per_shift /\ arg[2].salary_avg = None /\ arg[2].salary # None
    /\ ret.count = 2 /\ ret.min = Num(Rub(70000)) /\ ret.max = Num(Rub(125000))

-----------------------------------------------------------------------------
(* C5 *)

\* The records of a list at the positions in keep, in order
Restrict(vacancies, keep) ==
    LET F[i \in 0..Len(vacancies)] ==
            IF i = 0 THEN <<>>
            ELSE IF i \in keep THEN Append(F[i - 1], vacancies[i]) ELSE F[i - 1]
    IN  F[Len(vacancies)]

\* C5: no value below 13 000 rubles contributes to salary_stats, whichever
\* field it comes from: the summary is that of the list without the records
\* whose value is below the floor, and its min is at least 13 000; a value of
\* exactly 13 000 is kept.
C5_FloorExcludesSmallValues ==
    pc = "salary_stats" =>
      /\ ret = salary_stats(Restrict(arg, Eligible(arg)))
      /\ ret.count > 0 => ret.min.v >= Rub(13000)
      /\ (Len(arg) = 1 /\ Chosen(arg[1]) = Num(Rub(13000)))
            => (ret.count = 1 /\ ret.min = Num(Rub(13000)))

\* A value just below the floor next to a value exactly on it: only the
\* second is counted
C5_Witness ==
    /\ pc = "salary_stats" /\ Len(arg) = 2
    /\ Chosen(arg[1]) = Num(Rub(12999)) /\ Chosen(arg[2]) = Num(Rub(13000))
    /\ ret.count = 1 /\ ret.min = Num(Rub(13000))

-----------------------------------------------------------------------------
(* C6 *)

\* The positions hourly_rate_stats counts
HourlyEligible(vacancies) ==
    {i \in 1..Len(vacancies) :
        /\ ~vacancies[i].salary_per_shift
        /\ Resolved(vacancies[i]).t = "num" /\ Resolved(vacancies[i]).v >= Rub(10000)
        /\ vacancies[i].schedule \notin {None, Text("")}}

AllNull(r) == r.avg = None /\ r.median = None /\ r.min = None /\ r.max = None
AllNumeric(r) == r.avg.t = "num" /\ r.median.t = "num" /\ r.min.t = "num" /\ r.max.t = "num"

\* C6: salary_stats and hourly_rate_stats return a summary for every list of
\* records (on every list the call evaluates to one): with no eligible salary the
\* summary {count: 0, avg, median, min, max: null}, otherwise count >= 1 and
\* avg, median, min, max all numbers.
C6_SummaryAlwaysWellFormed ==
    /\ pc = "start" => (salary_stats(arg).count >= 0 /\ hourly_rate_stats(arg).count >= 0)
    /\ pc # "start" =>
          LET elig == IF pc = "salary_stats" THEN Eligible(arg) ELSE HourlyEligible(arg)
          IN  /\ DOMAIN ret = {"count", "avg", "median", "min", "max"}
              /\ elig = {} => (ret.count = 0 /\ AllNull(ret))
              /\ elig # {} => (ret.count >= 1 /\ AllNumeric(ret))

\* A non-empty list without any eligible salary was summarized
C6_Witness ==
    /\ pc \in {"salary_stats", "hourly_rate_stats"}
    /\ Len(arg) = 2 /\ arg[1].salary_avg = Str /\ arg[2].salary_avg = Num(Rub(12999))
    /\ ret.count = 0 /\ ret.avg = None

-----------------------------------------------------------------------------
(* C3 *)

\* The sample that remains after the floor, sorted
Sample(vacancies) ==
    LET e == Restrict(vacancies, Eligible(vacancies))
    IN  Sorted([i \in 1..Len(e) |-> Chosen(e[i]).v])

\* The quartile at index h = (n - 1) * p4 / 4 of a sorted sample by linear
\* interpolation, times 4: s[k] + (h - k) * (s[k + 1] - s[k]) with k = floor(h),
\* over positions counted from 0
Quartile4(s, p4) ==
    LET h4 == (Len(s) - 1) * p4
        k == h4 \div 4
    IN  IF h4 = 4 * k THEN 4 * s[k + 1]
        ELSE 4 * s[k + 1] + (h4 - 4 * k) * (s[k + 2] - s[k + 1])

\* The members of a sorted sample that are not greater than Q3 + 1.5 * (Q3 - Q1)
BelowFence(s) ==
    LET q1 == Quartile4(s, 1)
        q3 == Quartile4(s, 3)
    IN  SelectSeq(s, LAMBDA x : 8 * x <= 2 * q3 + 3 * (q3 - q1))

FiveWithOutlier ==
    <<Rub(40000), Rub(45000), Rub(50000), Rub(55000), Rub(500000)>>

\* C3, as claimed: for every sample of n >= 4 values remaining after the
\* floor, salary_stats drops every value greater than Q3 + 1.5 * (Q3 - Q1) and
\* keeps every other one.
C3_FenceDropsEveryValueAbove ==
    (pc = "salary_stats" /\ Len(Sample(arg)) >= 4) =>
        LET kept == BelowFence(Sample(arg))
        IN  ret.count = Len(kept) /\ ret.max = Num(kept[Len(kept)])

\* C3, amended: for every sample of n >= 4 values remaining after the floor
\* with Q3 > Q1, salary_stats drops every value greater than
\* Q3 + 1.5 * (Q3 - Q1) and keeps every other one; with Q3 = Q1 it drops
\* nothing. [40000, 45000, 50000, 55000, 500000] gives count 4 and max 55000.
C3_FenceWhenQuartilesDiffer ==
    (pc = "salary_stats" /\ Len(Sample(arg)) >= 4) =>
        LET s == Sample(arg)
            kept == IF Quartile4(s, 3) > Quartile4(s, 1) THEN BelowFence(s) ELSE s
        IN  /\ ret.count = Len(kept) /\ ret.max = Num(kept[Len(kept)])
            /\ ret.min = Num(kept[1])
            /\ s = FiveWithOutlier => (ret.count = 4 /\ ret.max = Num(Rub(55000)))

\* The sample of the example, given out of order, lost its outlier to the fence
C3_Witness ==
    /\ pc = "salary_stats"
    /\ Sample(arg) = FiveWithOutlier /\ arg[1].salary_avg = Num(Rub(500000))
    /\ ret.count = 4 /\ ret.max = Num(Rub(55000))

-----------------------------------------------------------------------------
(* C4 *)

\* Twice the median of a sorted sample
Median2(s) ==
    LET n == Len(s)
    IN  IF n % 2 = 1 THEN 2 * s[(n + 1) \div 2] ELSE s[n \div 2] + s[n \div 2 + 1]

\* C4: of a sample of 2 or 3 values remaining after the floor, salary_stats
\* drops exactly the single largest value when it exceeds twice the sample
\* median and nothing otherwise; of a single value nothing is dropped.
\* [40000, 45000, 300000] gives max 45000.
C4_SmallSampleGuard ==
    (pc = "salary_stats" /\ Len(Sample(arg)) \in 1..3) =>
        LET s == Sample(arg)
            n == Len(s)
            drop == n >= 2 /\ s[n] > Median2(s)
        IN  /\ drop => (ret.count = n - 1 /\ ret.max = Num(s[n - 1]))
            /\ ~drop => (ret.count = n /\ ret.max = Num(s[n]))
            /\ ret.min = Num(s[1])
            /\ n = 1 => ret.count = 1
            /\ s = <<Rub(40000), Rub(45000), Rub(300000)>> => ret.max = Num(Rub(45000))

\* The sample of the example lost its largest value
C4_Witness ==
    /\ pc = "salary_stats"
    /\ Sample(arg) = <<Rub(40000), Rub(45000), Rub(300000)>>
    /\ ret.count = 2 /\ ret.max = Num(Rub(45000))

-----------------------------------------------------------------------------
(* C7 *)

\* The surviving set: the sorted sample after the outlier stage
Surviving(vacancies) == filtered(salaries(vacancies))

\* The k-th smallest member of a list, by counting
KthSmallest(s, k) ==
    CHOOSE x \in {s[i] : i \in 1..Len(s)} :
        /\ Cardinality({i \in 1..Len(s) : s[i] < x}) < k
        /\ Cardinality({i \in 1..Len(s) : s[i] <= x}) >= k

\* Twice the median of a list: the middle element of the sorted list, or the
\* mean of the two middle ones
MiddleTwice(s) ==
    LET n == Len(s)
    IN  IF n % 2 = 1 THEN 2 * KthSmallest(s, (n + 1) \div 2)
        ELSE KthSmallest(s, n \div 2) + KthSmallest(s, n \div 2 + 1)

\* x is num / den rounded to 2 decimals (to a whole number of kopecks)
IsRounded(x, num, den) == 2 * (x * den - num) <= den /\ 2 * (num - x * den) <= den

Pair70And120 == <<Only(Num(Rub(70000))), Only(Num(Rub(120000)))>>

\* salary_stats of the two records
PairSummary == salary_stats(Pair70And120)

\* C7, as claimed: on the surviving set S, count = |S|, min and max are the
\* smallest and largest elements of S, avg is the arithmetic mean of S and
\* median the middle element of sorted S (the mean of the two middle ones
\* when |S| is even).
C7_SummaryIsExactMean ==
    (pc = "salary_stats" /\ ret.count > 0) =>
        LET S == Surviving(arg)
        IN  /\ ret.count = Len(S)
            /\ ret.min.v = KthSmallest(S, 1) /\ ret.max.v = KthSmallest(S, Len(S))
            /\ ret.avg.v * Len(S) = Sum(S)
            /\ 2 * ret.median.v = MiddleTwice(S)

\* C7, amended: on the surviving set S, count = |S| and min, max, avg and
\* median are the smallest element, the largest element, the arithmetic mean
\* and the median of S, each rounded to 2 decimals; for two surviving values
\* 70000 and 120000 both avg and median are 95000.
C7_SummaryRoundedToTwoDecimals ==
    /\ (pc = "salary_stats" /\ ret.count > 0) =>
        LET S == Surviving(arg)
        IN  /\ ret.count = Len(S)
            /\ ret.min.v = KthSmallest(S, 1) /\ ret.max.v = KthSmallest(S, Len(S))
            /\ IsRounded(ret.avg.v, Sum(S), Len(S))
            /\ IsRounded(ret.median.v, MiddleTwice(S), 2)
    /\ PairSummary.count = 2
    /\ PairSummary.avg = Num(Rub(95000))
    /\ PairSummary.median = Num(Rub(95000))

\* Three values survive whose mean, 41666.666..., is reported as 41666.67
C7_Witness ==
    /\ pc = "salary_stats"
    /\ Surviving(arg) = <<Rub(40000), Rub(40000), Rub(45000)>>
    /\ ret.count = 3 /\ ret.avg = Num(4166667) /\ ret.median = Num(Rub(40000))

-----------------------------------------------------------------------------
(* C8 *)

\* The resolved salaries hourly_rate_stats counts
HourlySalaries(vacancies) ==
    LET e == Restrict(vacancies, HourlyEligible(vacancies))
    IN  [i \in 1..Len(e) |-> Resolved(e[i]).v]

\* C8, as claimed: hourly_rate_stats counts exactly the records that are not
\* per-shift, have a resolved salary >= 10 000 and a non-empty schedule; max
\* equals the largest eligible salary / 164.
C8_HourlyMaxIsExactQuotient ==
    pc = "hourly_rate_stats" =>
        LET sal == HourlySalaries(arg)
        IN  /\ ret.count = Len(sal)
            /\ sal # <<>> => ret.max.v * 164 = KthSmallest(sal, Len(sal))

\* C8, amended: hourly_rate_stats counts exactly the records that are not
\* per-shift, have a resolved salary >= 10 000 and a non-empty schedule, with
\* no outlier filtering: count is the number of eligible records, and max and
\* min are the largest and the smallest eligible salary / 164, rounded to 2
\* decimals. salary_avg 164000 with a schedule gives 1000.0.
C8_HourlyCountsEligibleRecords ==
    pc = "hourly_rate_stats" =>
        LET sal == HourlySalaries(arg)
        IN  /\ ret.count = Len(sal)
            /\ sal # <<>> =>
                  /\ IsRounded(ret.max.v, KthSmallest(sal, Len(sal)), 164)
                  /\ IsRounded(ret.min.v, KthSmallest(sal, 1), 164)
                  /\ IsRounded(ret.avg.v, Sum(sal), 164 * Len(sal))
            /\ sal = <<Rub(164000)>> => ret.max = Num(Rub(1000))

\* Three salaries of 40000 and one of 500000, each with a schedule: all four
\* are counted and the largest gives max 3048.78, where salary_stats drops
\* 500000 as an outlier and counts three
C8_Witness ==
    /\ pc = "hourly_rate_stats" /\ Len(arg) = 4
    /\ \A i \in 1..4 : ~arg[i].salary_per_shift /\ arg[i].schedule = FullDay
    /\ HourlySalaries(arg) = <<Rub(40000), Rub(40000), Rub(500000), Rub(40000)>>
    /\ ret.count = 4 /\ ret.max = Num(304878) /\ ret.min = Num(24390)
    /\ salary_stats(arg).count = 3 /\ salary_stats(arg).max = Num(Rub(40000))

-----------------------------------------------------------------------------
(* C9 *)

\* The employers of a list: the non-empty employer ids its vacancies carry.
\* A vacancy without an employer id belongs to no employer.
Employers(items) ==
    {items[i].employer_id : i \in {i \in 1..Len(items) :
                                      items[i].employer_id \notin {None, Text("")}}}

VacanciesOf(items, e) == {i \in 1..Len(items) : items[i].employer_id = e}
DisclosedOf(items, e) == {i \in VacanciesOf(items, e) : items[i].salary_avg.t = "num"}

\* The salaries disclosed by the vacancies of all employers
GlobalDisclosed(items) ==
    {items[i].salary_avg.v : i \in UNION {DisclosedOf(items, e) : e \in Employers(items)}}

RECURSIVE SumAt(_, _)
SumAt(items, idx) ==
    IF idx = {} THEN 0
    ELSE LET i == CHOOSE i \in idx : TRUE
         IN  items[i].salary_avg.v + SumAt(items, idx \ {i})

\* 1 + 4 * (0.4 * trust + 0.3 * disclosure + 0.2 * level + 0.1 * scale)
ClaimedMark(items, e) ==
    LET vac == VacanciesOf(items, e)
        dis == DisclosedOf(items, e)
        all == GlobalDisclosed(items)
        lo == CHOOSE x \in all : \A y \in all : x <= y
        hi == CHOOSE x \in all : \A y \in all : x >= y
        trust == IF \E i \in vac : items[i].employer_trusted THEN 1 ELSE 0
        disclosure == Rat(Cardinality(dis), Cardinality(vac))
        level == IF dis = {} \/ hi = lo THEN Rat(0, 1)
                 ELSE Rat(SumAt(items, dis) - lo * Cardinality(dis), (hi - lo) * Cardinality(dis))
        largest == CHOOSE k \in {Cardinality(VacanciesOf(items, f)) : f \in Employers(items)} :
                      \A f \in Employers(items) : Cardinality(VacanciesOf(items, f)) <= k
        scale == Rat(Cardinality(vac), largest)
        total == RAdd(RAdd(Rat(4 * trust, 10), RMul(Rat(3, 10), disclosure)),
                      RAdd(RMul(Rat(2, 10), level), RMul(Rat(1, 10), scale)))
    IN  RAdd(Rat(1, 1), RMul(Rat(4, 1), total))

Clamp15(x) == IF RLess(x, Rat(1, 1)) THEN Rat(1, 1) ELSE IF RLess(Rat(5, 1), x) THEN Rat(5, 1) ELSE x

\* C9: compute_employer_marks gives every employer with at least one vacancy,
\* and no one else, the mark clamp(1 + 4 * (0.4 * trust + 0.3 * disclosure +
\* 0.2 * level + 0.1 * scale), 1, 5): trust is 1 iff one of its vacancies is
\* trusted, disclosure its share of vacancies with a numeric salary_avg, level
\* (its mean disclosed salary - min) / (max - min) over the salaries disclosed
\* by all employers, 0 when max = min or it discloses none, scale its vacancy
\* count over the largest count. Every mark lies in [1, 5], and for every
\* input list the marks are computed with non-zero denominators.
C9_EmployerMarks ==
    /\ pc = "start" => DOMAIN compute_employer_marks(arg) = Employers(arg)
    /\ pc = "compute_employer_marks" =>
          /\ DOMAIN ret = Employers(arg)
          /\ \A e \in Employers(arg) :
                /\ ret[e].d > 0
                /\ ret[e] = Clamp15(ClaimedMark(arg, e))
                /\ ~RLess(ret[e], Rat(1, 1)) /\ ~RLess(Rat(5, 1), ret[e])

\* Two employers next to a vacancy without employer id whose salary is below
\* both: the first gets 1 + 4 * (0.3 + 0.2 + 0.1) = 3.4, the trusted second
\* 1 + 4 * (0.4 + 0.3 + 0 + 0.1) = 4.2
C9_Witness ==
    /\ pc = "compute_employer_marks"
    /\ arg = <<Item(None, FALSE, Num(Rub(30000))), Item(Text("e1"), FALSE, Num(Rub(100000))),
               Item(Text("e2"), TRUE, Num(Rub(50000)))>>
    /\ ret[Text("e1")] = Rat(17, 5) /\ ret[Text("e2")] = Rat(21, 5)

-----------------------------------------------------------------------------
(* Text: str, str.lower and the regular expressions of re *)

\* A text is a sequence of characters, each written as a string: a digit, a
\* Latin lower-case letter or an ASCII sign stands for itself, an upper-case
\* code for the Cyrillic lower-case letter it transliterates ("S" "M" "E"
\* "N" "A" is the word for a shift), "^" before a letter marks its capital,
\* and the remaining signs are named
LowerLetters ==
    <<"A", "B", "V", "G", "D", "E", "YO", "ZH", "Z", "I", "J", "K", "L",
      "M", "N", "O", "P", "R", "S", "T", "U", "F", "H", "C", "CH", "SH",
      "SCH", "HARD", "Y", "SOFT", "EH", "YU", "YA", "a", "b", "c", "d",
      "e", "f", "g", "h", "i", "j", "k", "l", "m", "n", "o", "p", "q", "r",
      "s", "t", "u", "v", "w", "x", "y", "z">>

UpperLetters == [k \in 1..Len(LowerLetters) |-> "^" \o LowerLetters[k]]

\* str.lower on one character
LowerChar(ch) ==
    IF \E k \in 1..Len(UpperLetters) : UpperLetters[k] = ch
    THEN LowerLetters[CHOOSE k \in 1..Len(UpperLetters) : UpperLetters[k] = ch]
    ELSE ch

\* str.lower
Lower(t) == [k \in 1..Len(t) |-> LowerChar(t[k])]

\* \d, \s and \w of re on str
DigitChars == {"0", "1", "2", "3", "4", "5", "6", "7", "8", "9"}
SpaceChars == {" ", "TAB", "NL", "NBSP"}
WordChars ==
    {LowerLetters[k] : k \in 1..Len(LowerLetters)}
      \cup {UpperLetters[k] : k \in 1..Len(UpperLetters)} \cup DigitChars \cup {"_"}

\* " ".join of a list of texts
RECURSIVE Join(_)
Join(parts) ==
    IF Len(parts) = 0 THEN <<>>
    ELSE IF Len(parts) = 1 THEN parts[1]
    ELSE parts[1] \o <<" ">> \o Join(Tail(parts))

\* The value of a text of decimal digits
RECURSIVE DigitsValue(_)
DigitsValue(t) ==
    IF t = <<>> THEN 0
    ELSE 10 * DigitsValue(SubSeq(t, 1, Len(t) - 1))
           + (CHOOSE d \in 0..9 : ToString(d) = t[Len(t)])

\* Regular expressions as trees
Lit(s) == [k |-> "lit", s |-> s]
In(cs) == [k |-> "in", cs |-> cs]
AnyChar == [k |-> "any"]
AnyOrNewline == [k |-> "all"]
Cat(rs) == [k |-> "cat", rs |-> rs]
Alt(rs) == [k |-> "alt", rs |-> rs]
Inf == -1
Rep(lo, hi, r) == [k |-> "rep", lo |-> lo, hi |-> hi, r |-> r]
Opt(r) == Rep(0, 1, r)
Star(r) == Rep(0, Inf, r)
Plus(r) == Rep(1, Inf, r)
Group(g, r) == [k |-> "group", g |-> g, r |-> r]
GroupEnd(g, from) == [k |-> "end", g |-> g, from |-> from]
WordBoundary == [k |-> "b"]
Ahead(r) == [k |-> "ahead", r |-> r]
NotAhead(r) == [k |-> "notahead", r |-> r]
EndOfText == [k |-> "eot"]

\* The span of a group that took no part in the match, and the most groups
\* a pattern of the program has
NoSpan == <<-1, -1>>
MaxGroups == 5
NoGroups == [g \in 1..MaxGroups |-> NoSpan]
NoMatch == [ok |-> FALSE]

\* \b holds between offsets i - 1 and i when exactly one side is a word
\* character
IsWordAt(t, i) == i >= 1 /\ i <= Len(t) /\ t[i] \in WordChars

\* An expression that matches one character, and whether it matches ch
IsSingle(r) == r.k \in {"in", "any", "all"} \/ (r.k = "lit" /\ Len(r.s) = 1)

MatchesChar(r, ch) ==
    CASE r.k = "in" -> ch \in r.cs
      [] r.k = "any" -> ch # "NL"
      [] r.k = "all" -> TRUE
      [] r.k = "lit" -> ch = r.s[1]

\* The most characters from offset i on, hi at most, that all match r
LongestRun(r, t, i, hi) ==
    LET limit == IF hi = Inf \/ hi > Len(t) - i THEN Len(t) - i ELSE hi
    IN  CHOOSE n \in 0..limit :
            /\ \A j \in 1..n : MatchesChar(r, t[i + j])
            /\ n = limit \/ ~MatchesChar(r, t[i + n + 1])

\* A match with its start
StartedAt(m, s) == IF m.ok THEN [ok |-> TRUE, s |-> s, e |-> m.e, c |-> m.c] ELSE NoMatch

\* The first of the matches tried that is one: the first alternative or else
\* the others, and the longest run of a repetition or else a shorter one
FirstOf(tried) ==
    IF \A k \in 1..Len(tried) : ~tried[k].ok THEN NoMatch
    ELSE tried[CHOOSE k \in 1..Len(tried) : tried[k].ok /\ \A j \in 1..(k - 1) : ~tried[j].ok]

\* t has the characters s from offset i on
StartsWith(t, i, s) == i + Len(s) <= Len(t) /\ SubSeq(t, i + 1, i + Len(s)) = s

\* The expressions to match one after another for r
Parts(r) == IF r.k = "cat" THEN r.rs ELSE <<r>>

\* A repetition after one round of it
Again(r) == Rep(IF r.lo > 0 THEN r.lo - 1 ELSE 0, IF r.hi = Inf THEN Inf ELSE r.hi - 1, r.r)

\* The backtracking matcher of re: the first way, in the order the matcher
\* tries them (alternatives left to right, repetitions greedy), to match the
\* expressions of todo one after another from offset i of t, with the group
\* spans c found so far. A repetition of a one-character expression takes
\* the longest run and gives back one character at a time; any other
\* repetition tries one more round before it tries none
RECURSIVE Run(_, _, _, _)
Run(todo, t, i, c) ==
    CASE todo = <<>> -> [ok |-> TRUE, e |-> i, c |-> c]
      [] todo[1].k = "lit" /\ StartsWith(t, i, todo[1].s) ->
           Run(Tail(todo), t, i + Len(todo[1].s), c)
      [] todo[1].k \in {"in", "any", "all"} /\ i < Len(t) /\ MatchesChar(todo[1], t[i + 1]) ->
           Run(Tail(todo), t, i + 1, c)
      [] todo[1].k = "cat" -> Run(todo[1].rs \o Tail(todo), t, i, c)
      [] todo[1].k = "alt" ->
           FirstOf([k \in 1..Len(todo[1].rs) |-> Run(Parts(todo[1].rs[k]) \o Tail(todo), t, i, c)])
      [] todo[1].k = "rep" /\ IsSingle(todo[1].r)
            /\ LongestRun(todo[1].r, t, i, todo[1].hi) = todo[1].lo ->
           Run(Tail(todo), t, i + todo[1].lo, c)
      [] todo[1].k = "rep" /\ IsSingle(todo[1].r) ->
           FirstOf([k \in 1..(LongestRun(todo[1].r, t, i, todo[1].hi) - todo[1].lo + 1) |->
                       Run(Tail(todo), t, i + LongestRun(todo[1].r, t, i, todo[1].hi) + 1 - k, c)])
      [] todo[1].k = "rep" /\ ~IsSingle(todo[1].r) ->
           FirstOf(<<IF todo[1].hi = 0 THEN NoMatch
                     ELSE Run(Parts(todo[1].r) \o <<Again(todo[1])>> \o Tail(todo), t, i, c),
                     IF todo[1].lo = 0 THEN Run(Tail(todo), t, i, c) ELSE NoMatch>>)
      [] todo[1].k = "group" ->
           Run(Parts(todo[1].r) \o <<GroupEnd(todo[1].g, i)>> \o Tail(todo), t, i, c)
      [] todo[1].k = "end" ->
           Run(Tail(todo), t, i, [c EXCEPT ![todo[1].g] = <<todo[1].from, i>>])
      [] todo[1].k = "b" /\ IsWordAt(t, i) # IsWordAt(t, i + 1) -> Run(Tail(todo), t, i, c)
      [] todo[1].k = "ahead" /\ Run(<<todo[1].r>>, t, i, c).ok -> Run(Tail(todo), t, i, c)
      [] todo[1].k = "notahead" /\ ~Run(<<todo[1].r>>, t, i, c).ok -> Run(Tail(todo), t, i, c)
      [] todo[1].k = "eot" /\ i = Len(t) -> Run(Tail(todo), t, i, c)
      [] OTHER -> NoMatch

\* re.search from offset pos: the match at the leftmost offset that has one
SearchFrom(r, t, pos) ==
    FirstOf([k \in 1..(Len(t) - pos + 1) |-> StartedAt(Run(<<r>>, t, pos + k - 1, NoGroups), pos + k - 1)])

search(r, t) == SearchFrom(r, t, 0)

fullmatch(r, t) == Run(<<r, EndOfText>>, t, 0, NoGroups).ok

\* re.finditer: the matches from left to right, each search starting where
\* the match before it ended
RECURSIVE FindFrom(_, _, _)
FindFrom(r, t, pos) ==
    LET m == SearchFrom(r, t, pos)
    IN  IF ~m.ok THEN <<>>
        ELSE <<m>> \o FindFrom(r, t, IF m.e > m.s THEN m.e ELSE m.e + 1)

finditer(r, t) == FindFrom(r, t, 0)

\* m.group(g): the text of a group, None when it took no part; group 0 is
\* the whole match
group(t, m, g) ==
    IF g = 0 THEN Text(SubSeq(t, m.s + 1, m.e))
    ELSE IF m.c[g] = NoSpan THEN None
    ELSE Text(SubSeq(t, m.c[g][1] + 1, m.c[g][2]))
-----------------------------------------------------------------------------
(* The patterns of hh_parser_ver2, each as the string the program hands to
   re: the lists patterns_simple and range_patterns are rf-strings, in which
   {{2,}} gives the quantifier {2,} while {2,} is a replacement field that
   formats the tuple (2,) into the pattern as the group "(2,)" *)

\* line 214: (?:смен[ауыее]?|см\.?)(?=\b)
SHIFT_TOKEN ==
    Cat(<<Lit(<<"S", "M">>),
          Alt(<<Cat(<<Lit(<<"E", "N">>), Opt(In({"A", "U", "Y", "E"}))>>),
                Opt(Lit(<<".">>))>>),
          Ahead(WordBoundary)>>)

\* line 217: (?:₽|р\.?|руб\.?|rub|rur|рубл(?:ей|я|и|ь)?)
RUBLE_UNITS ==
    Alt(<<Lit(<<"RUB_SIGN">>),
          Cat(<<Lit(<<"R">>), Opt(Lit(<<".">>))>>),
          Cat(<<Lit(<<"R", "U", "B">>), Opt(Lit(<<".">>))>>),
          Lit(<<"r", "u", "b">>),
          Lit(<<"r", "u", "r">>),
          Cat(<<Lit(<<"R", "U", "B", "L">>),
                Opt(Alt(<<Lit(<<"E", "J">>),
                          Lit(<<"YA">>),
                          Lit(<<"I">>),
                          Lit(<<"SOFT">>)>>))>>)>>)

\* line 221: за\s+(?:(?:смен[ауыее]?|см\.?)(?=\b))\s*[:\-–—]?\s*([0-9][0-9\s\
\* .,](2,))(?:\s*(?:тыс\.?|тысяч|т\.?\s*р\.?|тр|k|к))?
patterns_simple_1 ==
    Cat(<<Lit(<<"Z", "A">>),
          Plus(In(SpaceChars)),
          SHIFT_TOKEN,
          Star(In(SpaceChars)),
          Opt(In({":", "-", "EN_DASH", "EM_DASH"})),
          Star(In(SpaceChars)),
          Group(1, Cat(<<In(DigitChars),
                         In(DigitChars \cup SpaceChars \cup {".", ","}),
                         Group(2, Lit(<<"2", ",">>))>>)),
          Opt(Cat(<<Star(In(SpaceChars)),
                    Alt(<<Cat(<<Lit(<<"T", "Y", "S">>), Opt(Lit(<<".">>))>>),
                          Lit(<<"T", "Y", "S", "YA", "CH">>),
                          Cat(<<Lit(<<"T">>),
                                Opt(Lit(<<".">>)),
                                Star(In(SpaceChars)),
                                Lit(<<"R">>),
                                Opt(Lit(<<".">>))>>),
                          Lit(<<"T", "R">>),
                          Lit(<<"k">>),
                          Lit(<<"K">>)>>)>>))>>)

\* line 223: ([0-9][0-9\s\.,](2,))\s*(?:(?:₽|р\.?|руб\.?|rub|rur|рубл(?:ей|я|
\* и|ь)?))?\s*(?:/\s*(?:смен[ауыее]?|см\.?)(?=\b)|за\s+(?:смен[ауыее]?|см\.?)
\* (?=\b))
patterns_simple_2 ==
    Cat(<<Group(1, Cat(<<In(DigitChars),
                         In(DigitChars \cup SpaceChars \cup {".", ","}),
                         Group(2, Lit(<<"2", ",">>))>>)),
          Star(In(SpaceChars)),
          Opt(RUBLE_UNITS),
          Star(In(SpaceChars)),
          Alt(<<Cat(<<Lit(<<"/">>), Star(In(SpaceChars)), SHIFT_TOKEN>>),
                Cat(<<Lit(<<"Z", "A">>), Plus(In(SpaceChars)), SHIFT_TOKEN>>)>>)>>)

\* line 225: (?:смен[ауыее]?|см\.?)(?=\b)\s*[:\-–—]?\s*([0-9][0-9\s\.,](2,))\
\* s*(?:(?:₽|р\.?|руб\.?|rub|rur|рубл(?:ей|я|и|ь)?))?(?:\s*(?:тыс\.?|тысяч|т\
\* .?\s*р\.?|тр|k|к))?
patterns_simple_3 ==
    Cat(<<SHIFT_TOKEN,
          Star(In(SpaceChars)),
          Opt(In({":", "-", "EN_DASH", "EM_DASH"})),
          Star(In(SpaceChars)),
          Group(1, Cat(<<In(DigitChars),
                         In(DigitChars \cup SpaceChars \cup {".", ","}),
                         Group(2, Lit(<<"2", ",">>))>>)),
          Star(In(SpaceChars)),
          Opt(RUBLE_UNITS),
          Opt(Cat(<<Star(In(SpaceChars)),
                    Alt(<<Cat(<<Lit(<<"T", "Y", "S">>), Opt(Lit(<<".">>))>>),
                          Lit(<<"T", "Y", "S", "YA", "CH">>),
                          Cat(<<Lit(<<"T">>),
                                Opt(Lit(<<".">>)),
                                Star(In(SpaceChars)),
                                Lit(<<"R">>),
                                Opt(Lit(<<".">>))>>),
                          Lit(<<"T", "R">>),
                          Lit(<<"k">>),
                          Lit(<<"K">>)>>)>>))>>)

\* line 227: ([0-9][0-9\s\.,](2,))\s*(?:(?:₽|р\.?|руб\.?|rub|rur|рубл(?:ей|я|
\* и|ь)?))?\s*/\s*(?:смен[ауыее]?|см\.?)(?=\b)(?:\s*(?:тыс\.?|тысяч|т\.?\s*р\
\* .?|тр|k|к))?
patterns_simple_4 ==
    Cat(<<Group(1, Cat(<<In(DigitChars),
                         In(DigitChars \cup SpaceChars \cup {".", ","}),
                         Group(2, Lit(<<"2", ",">>))>>)),
          Star(In(SpaceChars)),
          Opt(RUBLE_UNITS),
          Star(In(SpaceChars)),
          Lit(<<"/">>),
          Star(In(SpaceChars)),
          SHIFT_TOKEN,
          Opt(Cat(<<Star(In(SpaceChars)),
                    Alt(<<Cat(<<Lit(<<"T", "Y", "S">>), Opt(Lit(<<".">>))>>),
                          Lit(<<"T", "Y", "S", "YA", "CH">>),
                          Cat(<<Lit(<<"T">>),
                                Opt(Lit(<<".">>)),
                                Star(In(SpaceChars)),
                                Lit(<<"R">>),
                                Opt(Lit(<<".">>))>>),
                          Lit(<<"T", "R">>),
                          Lit(<<"k">>),
                          Lit(<<"K">>)>>)>>))>>)

\* line 229: посмен\w*\s*(?:оплата|ставка)?\s*[:\-–—]?\s*([0-9][0-9\s\.,](2,)
\* )\s*(?:(?:₽|р\.?|руб\.?|rub|rur|рубл(?:ей|я|и|ь)?))?(?:\s*(?:тыс\.?|тысяч|
\* т\.?\s*р\.?|тр|k|к))?
patterns_simple_5 ==
    Cat(<<Lit(<<"P", "O", "S", "M", "E", "N">>),
          Star(In(WordChars)),
          Star(In(SpaceChars)),
          Opt(Alt(<<Lit(<<"O", "P", "L", "A", "T", "A">>),
                    Lit(<<"S", "T", "A", "V", "K", "A">>)>>)),
          Star(In(SpaceChars)),
          Opt(In({":", "-", "EN_DASH", "EM_DASH"})),
          Star(In(SpaceChars)),
          Group(1, Cat(<<In(DigitChars),
                         In(DigitChars \cup SpaceChars \cup {".", ","}),
                         Group(2, Lit(<<"2", ",">>))>>)),
          Star(In(SpaceChars)),
          Opt(RUBLE_UNITS),
          Opt(Cat(<<Star(In(SpaceChars)),
                    Alt(<<Cat(<<Lit(<<"T", "Y", "S">>), Opt(Lit(<<".">>))>>),
                          Lit(<<"T", "Y", "S", "YA", "CH">>),
                          Cat(<<Lit(<<"T">>),
                                Opt(Lit(<<".">>)),
                                Star(In(SpaceChars)),
                                Lit(<<"R">>),
                                Opt(Lit(<<".">>))>>),
                          Lit(<<"T", "R">>),
                          Lit(<<"k">>),
                          Lit(<<"K">>)>>)>>))>>)

\* line 231: (?:сменн\w*\s+график(?:\s*работы)?|график(?:\s+работы)?\s+сменн\
\* w*)\s*(?:оплата|ставка)?\s*[:\-–—]?\s*([0-9][0-9\s\.,](2,))(?=(?:\s*(?:(?:
\* ₽|р\.?|руб\.?|rub|rur|рубл(?:ей|я|и|ь)?)))?\b)(?![\s\S](0,
\* 20)\b(?:/?\s*мес(?:яц)?|в\s*месяц|/\s*month|per\s*month)\b)
patterns_simple_6 ==
    Cat(<<Alt(<<Cat(<<Lit(<<"S", "M", "E", "N", "N">>),
                      Star(In(WordChars)),
                      Plus(In(SpaceChars)),
                      Lit(<<"G", "R", "A", "F", "I", "K">>),
                      Opt(Cat(<<Star(In(SpaceChars)),
                                Lit(<<"R", "A", "B", "O", "T", "Y">>)>>))>>),
                Cat(<<Lit(<<"G", "R", "A", "F", "I", "K">>),
                      Opt(Cat(<<Plus(In(SpaceChars)),
                                Lit(<<"R", "A", "B", "O", "T", "Y">>)>>)),
                      Plus(In(SpaceChars)),
                      Lit(<<"S", "M", "E", "N", "N">>),
                      Star(In(WordChars))>>)>>),
          Star(In(SpaceChars)),
          Opt(Alt(<<Lit(<<"O", "P", "L", "A", "T", "A">>),
                    Lit(<<"S", "T", "A", "V", "K", "A">>)>>)),
          Star(In(SpaceChars)),
          Opt(In({":", "-", "EN_DASH", "EM_DASH"})),
          Star(In(SpaceChars)),
          Group(1, Cat(<<In(DigitChars),
                         In(DigitChars \cup SpaceChars \cup {".", ","}),
                         Group(2, Lit(<<"2", ",">>))>>)),
          Ahead(Cat(<<Opt(Cat(<<Star(In(SpaceChars)), RUBLE_UNITS>>)),
                      WordBoundary>>)),
          NotAhead(Cat(<<AnyOrNewline,
                         Group(3, Lit(<<"0", ",", " ", "2", "0">>)),
                         WordBoundary,
                         Alt(<<Cat(<<Opt(Lit(<<"/">>)),
                                     Star(In(SpaceChars)),
                                     Lit(<<"M", "E", "S">>),
                                     Opt(Lit(<<"YA", "C">>))>>),
                               Cat(<<Lit(<<"V">>),
                                     Star(In(SpaceChars)),
                                     Lit(<<"M", "E", "S", "YA", "C">>)>>),
                               Cat(<<Lit(<<"/">>),
                                     Star(In(SpaceChars)),
                                     Lit(<<"m", "o", "n", "t", "h">>)>>),
                               Cat(<<Lit(<<"p", "e", "r">>),
                                     Star(In(SpaceChars)),
                                     Lit(<<"m", "o", "n", "t", "h">>)>>)>>),
                         WordBoundary>>))>>)

patterns_simple ==
    <<patterns_simple_1,
      patterns_simple_2,
      patterns_simple_3,
      patterns_simple_4,
      patterns_simple_5,
      patterns_simple_6>>

\* line 243: ([0-9][0-9\s\.,]{2,})\s*[\-–—/]\s*([0-9][0-9\s\.,]{2,})\s*(?:(?:
\* ₽|р\.?|руб\.?|rub|rur|рубл(?:ей|я|и|ь)?))?\s*(?:/\s*(?:смен[ауыее]?|см\.?)
\* (?=\b)|за\s+(?:смен[ауыее]?|см\.?)(?=\b))
range_patterns_1 ==
    Cat(<<Group(1, Cat(<<In(DigitChars),
                         Rep(2, Inf, In(DigitChars \cup SpaceChars \cup {".", ","}))>>)),
          Star(In(SpaceChars)),
          In({"-", "EN_DASH", "EM_DASH", "/"}),
          Star(In(SpaceChars)),
          Group(2, Cat(<<In(DigitChars),
                         Rep(2, Inf, In(DigitChars \cup SpaceChars \cup {".", ","}))>>)),
          Star(In(SpaceChars)),
          Opt(RUBLE_UNITS),
          Star(In(SpaceChars)),
          Alt(<<Cat(<<Lit(<<"/">>), Star(In(SpaceChars)), SHIFT_TOKEN>>),
                Cat(<<Lit(<<"Z", "A">>), Plus(In(SpaceChars)), SHIFT_TOKEN>>)>>)>>)

\* line 245: за\s+(?:смен[ауыее]?|см\.?)(?=\b)\s*[:\-–—]?\s*([0-9][0-9\s\.,]{
\* 2,})\s*[\-–—/]\s*([0-9][0-9\s\.,]{2,})
range_patterns_2 ==
    Cat(<<Lit(<<"Z", "A">>),
          Plus(In(SpaceChars)),
          SHIFT_TOKEN,
          Star(In(SpaceChars)),
          Opt(In({":", "-", "EN_DASH", "EM_DASH"})),
          Star(In(SpaceChars)),
          Group(1, Cat(<<In(DigitChars),
                         Rep(2, Inf, In(DigitChars \cup SpaceChars \cup {".", ","}))>>)),
          Star(In(SpaceChars)),
          In({"-", "EN_DASH", "EM_DASH", "/"}),
          Star(In(SpaceChars)),
          Group(2, Cat(<<In(DigitChars),
                         Rep(2, Inf, In(DigitChars \cup SpaceChars \cup {".", ","}))>>))>>)

\* line 247: (?:смен[ауыее]?|см\.?)(?=\b)\s*[:\-–—]?\s*([0-9][0-9\s\.,]{2,})\
\* s*[\-–—/]\s*([0-9][0-9\s\.,]{2,})
range_patterns_3 ==
    Cat(<<SHIFT_TOKEN,
          Star(In(SpaceChars)),
          Opt(In({":", "-", "EN_DASH", "EM_DASH"})),
          Star(In(SpaceChars)),
          Group(1, Cat(<<In(DigitChars),
                         Rep(2, Inf, In(DigitChars \cup SpaceChars \cup {".", ","}))>>)),
          Star(In(SpaceChars)),
          In({"-", "EN_DASH", "EM_DASH", "/"}),
          Star(In(SpaceChars)),
          Group(2, Cat(<<In(DigitChars),
                         Rep(2, Inf, In(DigitChars \cup SpaceChars \cup {".", ","}))>>))>>)

\* line 249: посмен\w*\s*(?:оплата|ставка)?\s*[:\-–—]?\s*([0-9][0-9\s\.,](2,)
\* )\s*[\-–—/]\s*([0-9][0-9\s\.,](2,))\s*(?:(?:₽|р\.?|руб\.?|rub|rur|рубл(?:е
\* й|я|и|ь)?))?
range_patterns_4 ==
    Cat(<<Lit(<<"P", "O", "S", "M", "E", "N">>),
          Star(In(WordChars)),
          Star(In(SpaceChars)),
          Opt(Alt(<<Lit(<<"O", "P", "L", "A", "T", "A">>),
                    Lit(<<"S", "T", "A", "V", "K", "A">>)>>)),
          Star(In(SpaceChars)),
          Opt(In({":", "-", "EN_DASH", "EM_DASH"})),
          Star(In(SpaceChars)),
          Group(1, Cat(<<In(DigitChars),
                         In(DigitChars \cup SpaceChars \cup {".", ","}),
                         Group(2, Lit(<<"2", ",">>))>>)),
          Star(In(SpaceChars)),
          In({"-", "EN_DASH", "EM_DASH", "/"}),
          Star(In(SpaceChars)),
          Group(3, Cat(<<In(DigitChars),
                         In(DigitChars \cup SpaceChars \cup {".", ","}),
                         Group(4, Lit(<<"2", ",">>))>>)),
          Star(In(SpaceChars)),
          Opt(RUBLE_UNITS)>>)

\* line 251: (?:сменн\w*\s+график(?:\s*работы)?|график(?:\s+работы)?\s+сменн\
\* w*)\s*(?:оплата|ставка)?\s*[:\-–—]?\s*([0-9][0-9\s\.,](2,))\s*[\-–—/]\s*([
\* 0-9][0-9\s\.,](2,))(?=(?:\s*(?:(?:₽|р\.?|руб\.?|rub|rur|рубл(?:ей|я|и|ь)?)
\* ))?\b)(?![\s\S](0,
\* 20)\b(?:/?\s*мес(?:яц)?|в\s*месяц|/\s*month|per\s*month)\b)
range_patterns_5 ==
    Cat(<<Alt(<<Cat(<<Lit(<<"S", "M", "E", "N", "N">>),
                      Star(In(WordChars)),
                      Plus(In(SpaceChars)),
                      Lit(<<"G", "R", "A", "F", "I", "K">>),
                      Opt(Cat(<<Star(In(SpaceChars)),
                                Lit(<<"R", "A", "B", "O", "T", "Y">>)>>))>>),
                Cat(<<Lit(<<"G", "R", "A", "F", "I", "K">>),
                      Opt(Cat(<<Plus(In(SpaceChars)),
                                Lit(<<"R", "A", "B", "O", "T", "Y">>)>>)),
                      Plus(In(SpaceChars)),
                      Lit(<<"S", "M", "E", "N", "N">>),
                      Star(In(WordChars))>>)>>),
          Star(In(SpaceChars)),
          Opt(Alt(<<Lit(<<"O", "P", "L", "A", "T", "A">>),
                    Lit(<<"S", "T", "A", "V", "K", "A">>)>>)),
          Star(In(SpaceChars)),
          Opt(In({":", "-", "EN_DASH", "EM_DASH"})),
          Star(In(SpaceChars)),
          Group(1, Cat(<<In(DigitChars),
                         In(DigitChars \cup SpaceChars \cup {".", ","}),
                         Group(2, Lit(<<"2", ",">>))>>)),
          Star(In(SpaceChars)),
          In({"-", "EN_DASH", "EM_DASH", "/"}),
          Star(In(SpaceChars)),
          Group(3, Cat(<<In(DigitChars),
                         In(DigitChars \cup SpaceChars \cup {".", ","}),
                         Group(4, Lit(<<"2", ",">>))>>)),
          Ahead(Cat(<<Opt(Cat(<<Star(In(SpaceChars)), RUBLE_UNITS>>)),
                      WordBoundary>>)),
          NotAhead(Cat(<<AnyOrNewline,
                         Group(5, Lit(<<"0", ",", " ", "2", "0">>)),
                         WordBoundary,
                         Alt(<<Cat(<<Opt(Lit(<<"/">>)),
                                     Star(In(SpaceChars)),
                                     Lit(<<"M", "E", "S">>),
                                     Opt(Lit(<<"YA", "C">>))>>),
                               Cat(<<Lit(<<"V">>),
                                     Star(In(SpaceChars)),
                                     Lit(<<"M", "E", "S", "YA", "C">>)>>),
                               Cat(<<Lit(<<"/">>),
                                     Star(In(SpaceChars)),
                                     Lit(<<"m", "o", "n", "t", "h">>)>>),
                               Cat(<<Lit(<<"p", "e", "r">>),
                                     Star(In(SpaceChars)),
                                     Lit(<<"m", "o", "n", "t", "h">>)>>)>>),
                         WordBoundary>>))>>)

\* line 253: (?:за\s+(?:смен[ауыее]?|см\.?)(?=\b)\s*)?от\s*([0-9][0-9\s\.,]{2
\* ,})\s*(?:(?:₽|р\.?|руб\.?|rub|rur|рубл(?:ей|я|и|ь)?)|тыс\.?|т\.?\s*р\.?|тр
\* |k|к)?\s*до\s*([0-9][0-9\s\.,]{2,}).{0,20}(?:/\s*(?:смен[ауыее]?|см\.?)(?=
\* \b)|за\s+(?:смен[ауыее]?|см\.?)(?=\b))
range_patterns_6 ==
    Cat(<<Opt(Cat(<<Lit(<<"Z", "A">>),
                    Plus(In(SpaceChars)),
                    SHIFT_TOKEN,
                    Star(In(SpaceChars))>>)),
          Lit(<<"O", "T">>),
          Star(In(SpaceChars)),
          Group(1, Cat(<<In(DigitChars),
                         Rep(2, Inf, In(DigitChars \cup SpaceChars \cup {".", ","}))>>)),
          Star(In(SpaceChars)),
          Opt(Alt(<<RUBLE_UNITS,
                    Cat(<<Lit(<<"T", "Y", "S">>), Opt(Lit(<<".">>))>>),
                    Cat(<<Lit(<<"T">>),
                          Opt(Lit(<<".">>)),
                          Star(In(SpaceChars)),
                          Lit(<<"R">>),
                          Opt(Lit(<<".">>))>>),
                    Lit(<<"T", "R">>),
                    Lit(<<"k">>),
                    Lit(<<"K">>)>>)),
          Star(In(SpaceChars)),
          Lit(<<"D", "O">>),
          Star(In(SpaceChars)),
          Group(2, Cat(<<In(DigitChars),
                         Rep(2, Inf, In(DigitChars \cup SpaceChars \cup {".", ","}))>>)),
          Rep(0, 20, AnyChar),
          Alt(<<Cat(<<Lit(<<"/">>), Star(In(SpaceChars)), SHIFT_TOKEN>>),
                Cat(<<Lit(<<"Z", "A">>), Plus(In(SpaceChars)), SHIFT_TOKEN>>)>>)>>)

range_patterns ==
    <<range_patterns_1,
      range_patterns_2,
      range_patterns_3,
      range_patterns_4,
      range_patterns_5,
      range_patterns_6>>

\* line 277: (\d{1,2})\s*(?:[\-–—]{1}\s*(\d{1,2}))?\s*смен[аы]?\s*(?:в\s*мес(
\* ?:яц)?|/\s*мес)\b
re_m_month ==
    Cat(<<Group(1, Rep(1, 2, In(DigitChars))),
          Star(In(SpaceChars)),
          Opt(Cat(<<Rep(1, 1, In({"-", "EN_DASH", "EM_DASH"})),
                    Star(In(SpaceChars)),
                    Group(2, Rep(1, 2, In(DigitChars)))>>)),
          Star(In(SpaceChars)),
          Lit(<<"S", "M", "E", "N">>),
          Opt(In({"A", "Y"})),
          Star(In(SpaceChars)),
          Alt(<<Cat(<<Lit(<<"V">>),
                      Star(In(SpaceChars)),
                      Lit(<<"M", "E", "S">>),
                      Opt(Lit(<<"YA", "C">>))>>),
                Cat(<<Lit(<<"/">>),
                      Star(In(SpaceChars)),
                      Lit(<<"M", "E", "S">>)>>)>>),
          WordBoundary>>)

\* line 283: (?:в\s*мес(?:яц)?|/\s*мес)\s*(\d{1,2})\s*смен[аы]?\b
re_m_month_reversed ==
    Cat(<<Alt(<<Cat(<<Lit(<<"V">>),
                      Star(In(SpaceChars)),
                      Lit(<<"M", "E", "S">>),
                      Opt(Lit(<<"YA", "C">>))>>),
                Cat(<<Lit(<<"/">>),
                      Star(In(SpaceChars)),
                      Lit(<<"M", "E", "S">>)>>)>>),
          Star(In(SpaceChars)),
          Group(1, Rep(1, 2, In(DigitChars))),
          Star(In(SpaceChars)),
          Lit(<<"S", "M", "E", "N">>),
          Opt(In({"A", "Y"})),
          WordBoundary>>)

\* line 298: (\d{1,2})\s*(?:[\-–—]{1}\s*(\d{1,2}))?\s*смен[аы]?\s*(?:в\s*неде
\* л[юи]|/\s*нед)\b
re_m_week ==
    Cat(<<Group(1, Rep(1, 2, In(DigitChars))),
          Star(In(SpaceChars)),
          Opt(Cat(<<Rep(1, 1, In({"-", "EN_DASH", "EM_DASH"})),
                    Star(In(SpaceChars)),
                    Group(2, Rep(1, 2, In(DigitChars)))>>)),
          Star(In(SpaceChars)),
          Lit(<<"S", "M", "E", "N">>),
          Opt(In({"A", "Y"})),
          Star(In(SpaceChars)),
          Alt(<<Cat(<<Lit(<<"V">>),
                      Star(In(SpaceChars)),
                      Lit(<<"N", "E", "D", "E", "L">>),
                      In({"YU", "I"})>>),
                Cat(<<Lit(<<"/">>),
                      Star(In(SpaceChars)),
                      Lit(<<"N", "E", "D">>)>>)>>),
          WordBoundary>>)

\* line 303: (?:в\s*недел[юи]|/\s*нед)\s*(\d{1,2})\s*смен[аы]?\b
re_m_week_reversed ==
    Cat(<<Alt(<<Cat(<<Lit(<<"V">>),
                      Star(In(SpaceChars)),
                      Lit(<<"N", "E", "D", "E", "L">>),
                      In({"YU", "I"})>>),
                Cat(<<Lit(<<"/">>),
                      Star(In(SpaceChars)),
                      Lit(<<"N", "E", "D">>)>>)>>),
          Star(In(SpaceChars)),
          Group(1, Rep(1, 2, In(DigitChars))),
          Star(In(SpaceChars)),
          Lit(<<"S", "M", "E", "N">>),
          Opt(In({"A", "Y"})),
          WordBoundary>>)

\* line 318: \b(\d{1,2})\s*/\s*(\d{1,2})\b
re_m_sched ==
    Cat(<<WordBoundary,
          Group(1, Rep(1, 2, In(DigitChars))),
          Star(In(SpaceChars)),
          Lit(<<"/">>),
          Star(In(SpaceChars)),
          Group(2, Rep(1, 2, In(DigitChars))),
          WordBoundary>>)

\* line 330: сутки\s+через\s+двое
re_sutki_cherez_dvoe ==
    Cat(<<Lit(<<"S", "U", "T", "K", "I">>),
          Plus(In(SpaceChars)),
          Lit(<<"CH", "E", "R", "E", "Z">>),
          Plus(In(SpaceChars)),
          Lit(<<"D", "V", "O", "E">>)>>)

\* line 332: сутки\s+через\s+трое
re_sutki_cherez_troe ==
    Cat(<<Lit(<<"S", "U", "T", "K", "I">>),
          Plus(In(SpaceChars)),
          Lit(<<"CH", "E", "R", "E", "Z">>),
          Plus(In(SpaceChars)),
          Lit(<<"T", "R", "O", "E">>)>>)

\* line 334: сутки\s+через\s+сутки
re_sutki_cherez_sutki ==
    Cat(<<Lit(<<"S", "U", "T", "K", "I">>),
          Plus(In(SpaceChars)),
          Lit(<<"CH", "E", "R", "E", "Z">>),
          Plus(In(SpaceChars)),
          Lit(<<"S", "U", "T", "K", "I">>)>>)

\* line 139: \d{1,3}[\.,]\d{3}
re_thousand_grouped ==
    Cat(<<Rep(1, 3, In(DigitChars)),
          In({".", ","}),
          Rep(3, 3, In(DigitChars))>>)

\* line 140: \d{1,3}(?:\s\d{3})+
re_spaced_grouped ==
    Cat(<<Rep(1, 3, In(DigitChars)),
          Plus(Cat(<<In(SpaceChars), Rep(3, 3, In(DigitChars))>>))>>)

\* line 141: \d+[\.,]\d+
re_decimal_number ==
    Cat(<<Plus(In(DigitChars)), In({".", ","}), Plus(In(DigitChars))>>)

\* line 161: the thousand markers
thousand_markers ==
    <<Lit(<<"T", "Y", "S">>),
      Lit(<<"T", "Y", "S", "YA", "CH">>),
      Cat(<<Lit(<<"T">>),
            Opt(Lit(<<".">>)),
            Star(In(SpaceChars)),
            Lit(<<"R">>),
            Opt(Lit(<<".">>))>>),
      Cat(<<Lit(<<"T", "R">>), WordBoundary>>),
      Cat(<<Lit(<<"k">>), WordBoundary>>),
      Cat(<<Lit(<<"K">>), WordBoundary>>)>>

-----------------------------------------------------------------------------
(* hh_parser_ver2._parse_number and _parse_ruble_amount; a float is kept as
   the exact fraction it stands for, in rubles *)

\* str.strip
RECURSIVE Strip(_)
Strip(t) ==
    IF t = <<>> THEN t
    ELSE IF Head(t) \in SpaceChars THEN Strip(Tail(t))
    ELSE IF t[Len(t)] \in SpaceChars THEN Strip(SubSeq(t, 1, Len(t) - 1))
    ELSE t

\* str.replace(old, new) on single characters, and the removal of characters
ReplaceChar(t, old, new) == [k \in 1..Len(t) |-> IF t[k] = old THEN new ELSE t[k]]
Without(t, chars) == SelectSeq(t, LAMBDA ch : ch \notin chars)

\* str.isdigit
IsDigit(t) == t # <<>> /\ \A k \in 1..Len(t) : t[k] \in DigitChars

\* 10 ** n
RECURSIVE Pow10(_)
Pow10(n) == IF n = 0 THEN 1 ELSE 10 * Pow10(n - 1)

\* _parse_number(text): the digits of the text once blanks, commas and dots
\* are taken out, None when anything else remains
_parse_number(text) ==
    LET cleaned == Without(ReplaceChar(IF text = None THEN <<>> ELSE text.s, "NBSP", " "),
                           {" ", ",", "."})
    IN  IF IsDigit(cleaned) THEN Rat(DigitsValue(cleaned), 1) ELSE None

\* float(s) of digits, a dot or comma and digits
DecimalValue(s) ==
    LET at == CHOOSE k \in 1..Len(s) : s[k] \in {".", ","}
        frac == SubSeq(s, at + 1, Len(s))
    IN  Rat(DigitsValue(SubSeq(s, 1, at - 1)) * Pow10(Len(frac)) + DigitsValue(frac),
            Pow10(Len(frac)))

\* base_num for a token s of which the three shapes are known
base_num_by_shape(s, thousand_grouped, spaced_grouped, decimal_number) ==
    IF spaced_grouped THEN Rat(DigitsValue(Without(s, SpaceChars)), 1)
    ELSE IF thousand_grouped /\ ~decimal_number
         THEN Rat(DigitsValue(Without(s, {".", ","})), 1)
    ELSE IF decimal_number THEN DecimalValue(s)
    ELSE _parse_number(Text(s))

\* The number of the token before any thousand marker is looked at
base_num(s) ==
    base_num_by_shape(s, fullmatch(re_thousand_grouped, s), fullmatch(re_spaced_grouped, s),
                      fullmatch(re_decimal_number, s))

has_thousand_marker(ctx) ==
    \E k \in 1..Len(thousand_markers) : search(thousand_markers[k], ctx).ok

\* in_context without the limit of 1000 on the number
in_context_any_size(base, ctx) ==
    IF base = None THEN None
    ELSE IF has_thousand_marker(ctx) THEN RMul(base, Rat(1000, 1))
    ELSE base

\* The amount of a number base read in the context ctx: a thousand marker in
\* the context multiplies a number of at most 1000 by 1000
in_context(base, ctx) ==
    IF base = None THEN None
    ELSE IF has_thousand_marker(ctx) /\ ~RLess(Rat(1000, 1), base)
         THEN RMul(base, Rat(1000, 1))
    ELSE base

_parse_ruble_amount(text_full, numeric_group) ==
    in_context(base_num(Strip(ReplaceChar(IF numeric_group # None /\ Strip(numeric_group.s) # <<>>
                                          THEN numeric_group.s ELSE text_full.s,
                                          "NBSP", " "))),
               Lower(text_full.s))

-----------------------------------------------------------------------------
(* hh_parser_ver2.estimate_monthly_salary_from_text *)

\* sum(values) of a list of fractions
RECURSIVE RSum(_)
RSum(s) == IF s = <<>> THEN Rat(0, 1) ELSE RAdd(Head(s), RSum(Tail(s)))

\* The matches a loop over the patterns and over finditer of each visits,
\* in order
RECURSIVE Matches(_, _)
Matches(patterns, blob) ==
    IF patterns = <<>> THEN <<>>
    ELSE finditer(Head(patterns), blob) \o Matches(Tail(patterns), blob)

\* The values the loop over the matches appends, None left out
appended(values) == SelectSeq(values, LAMBDA v : v # None)

simple_candidates_of(blob, found) ==
    appended([k \in 1..Len(found) |->
                 _parse_ruble_amount(group(blob, found[k], 0), group(blob, found[k], 1))])

simple_candidates(blob) == simple_candidates_of(blob, Matches(patterns_simple, blob))

\* (v1 + v2) / 2 when both bounds are numbers
mean_of_bounds(v1, v2) ==
    IF v1 # None /\ v2 # None THEN RMul(RAdd(v1, v2), Rat(1, 2)) ELSE None

range_candidates_of(blob, found) ==
    appended([k \in 1..Len(found) |->
                 mean_of_bounds(
                     _parse_ruble_amount(group(blob, found[k], 0), group(blob, found[k], 1)),
                     _parse_ruble_amount(group(blob, found[k], 0), group(blob, found[k], 2)))])

range_candidates(blob) == range_candidates_of(blob, Matches(range_patterns, blob))

\* What the code does with a match of a shift-count pattern: it asks the
\* match for its group 2, and a pattern that has one group only raises
\* IndexError there, which the function's except turns into the result None
Raised == [t |-> "raised"]

\* low, or the mean of low and hi when group 2 took part
count_of(low, second) ==
    IF low = None THEN None
    ELSE IF second # None /\ second.s # <<>> /\ _parse_number(second) # None
         THEN RMul(RAdd(low, _parse_number(second)), Rat(1, 2))
    ELSE low

stated_count(blob, m, pattern_groups) ==
    IF ~m.ok THEN None
    ELSE IF pattern_groups < 2 THEN Raised
    ELSE count_of(_parse_number(group(blob, m, 1)), group(blob, m, 2))

\* re.search of the direct pattern, then of the reversed one: the count the
\* statement found gives
direct_or_reversed(blob, direct, reversed) ==
    IF direct.ok THEN stated_count(blob, direct, 2) ELSE stated_count(blob, reversed, 1)

by_month(blob) ==
    direct_or_reversed(blob, search(re_m_month, blob), search(re_m_month_reversed, blob))

\* per_week * 4.33
weeks_of_month(per_week) ==
    IF per_week = None \/ per_week = Raised THEN per_week
    ELSE RMul(per_week, Rat(433, 100))

by_week(blob) ==
    weeks_of_month(direct_or_reversed(blob, search(re_m_week, blob),
                                      search(re_m_week_reversed, blob)))

\* on_off without the test that both counts of days are in 1..31
on_off_unchecked(on_days, off_days) ==
    IF on_days + off_days > 0 THEN Rat(30 * on_days, on_days + off_days) ELSE None

\* Priority B: the first on/off pair of the text, when both are in 1..31
on_off(on_days, off_days) ==
    IF 0 < on_days /\ on_days <= 31 /\ 0 < off_days /\ off_days <= 31
    THEN Rat(30 * on_days, on_days + off_days)
    ELSE None

schedule_of(blob, m_sched) ==
    IF m_sched.ok
    THEN on_off(DigitsValue(group(blob, m_sched, 1).s), DigitsValue(group(blob, m_sched, 2).s))
    ELSE None

by_schedule(blob) == schedule_of(blob, search(re_m_sched, blob))

\* Priority C: the rotation idioms
by_idiom(blob) ==
    IF search(re_sutki_cherez_dvoe, blob).ok THEN Rat(30, 3)
    ELSE IF search(re_sutki_cherez_troe, blob).ok THEN Rat(30, 4)
    ELSE IF search(re_sutki_cherez_sutki, blob).ok THEN Rat(30, 2)
    ELSE None

\* The first of the four that is not None (a raise in the second ends the
\* function), 15 when all are
first_of(first, second, third, fourth) ==
    IF first # None THEN first
    ELSE IF second # None THEN second
    ELSE IF third # None THEN third
    ELSE IF fourth # None THEN fourth
    ELSE Rat(15, 1)

\* monthly_shifts with the on/off schedule looked at before the shifts per
\* week
monthly_shifts_schedule_before_week(blob) ==
    first_of(by_month(blob), by_schedule(blob), by_week(blob), by_idiom(blob))

\* monthly_shifts before the clamp: the first of the shifts per month, the
\* shifts per week times 4.33, the on/off schedule and the idiom that the
\* text gives, 15 when it gives none; Raised when the code raises on the way
monthly_shifts(blob) ==
    first_of(by_month(blob), by_week(blob), by_schedule(blob), by_idiom(blob))

\* A variant that bounds the count from above only
monthly_estimate_no_lower_bound(candidates, shifts) ==
    IF candidates = <<>> \/ shifts = Raised THEN None
    ELSE RMul(RMul(RSum(candidates), Rat(1, Len(candidates))), RMin(Rat(26, 1), shifts))

\* per_shift * monthly_shifts, the mean of the candidates times the clamped
\* count
monthly_estimate(candidates, shifts) ==
    IF candidates = <<>> \/ shifts = Raised THEN None
    ELSE RMul(RMul(RSum(candidates), Rat(1, Len(candidates))),
              RMax(Rat(6, 1), RMin(Rat(26, 1), shifts)))

\* A variant that averages the amounts of both passes
candidates_of_both(ranges, simple) == ranges \o simple

\* candidates = range_candidates if range_candidates else simple_candidates
candidates_of(ranges, simple) == IF ranges # <<>> THEN ranges ELSE simple

estimate_of_blob(blob) ==
    monthly_estimate(candidates_of(range_candidates(blob), simple_candidates(blob)),
                     monthly_shifts(blob))

\* `x or ""` of an argument
OrEmpty(x) == IF Truthy(x) THEN x ELSE Text(<<>>)

\* " ".join raises TypeError on a part that is not a str, and the function
\* returns None
blob_of(parts) ==
    IF \E k \in 1..Len(parts) : parts[k].t # "str" THEN Raised
    ELSE Text(Lower(Join([k \in 1..Len(parts) |-> parts[k].s])))

\* A variant without the except clause
estimate_of_uncaught(blob) == IF blob = Raised THEN Raised ELSE estimate_of_blob(blob.s)

estimate_of(blob) == IF blob = Raised THEN None ELSE estimate_of_blob(blob.s)

estimate_monthly_salary_from_text(title, responsibility, requirement, description_text) ==
    estimate_of(blob_of(<<OrEmpty(title), OrEmpty(responsibility), OrEmpty(requirement),
                          OrEmpty(description_text)>>))

EstimateMonthlySalaryFromText ==
    /\ pc = "start"
    /\ pc' = "estimate_monthly_salary_from_text"
    /\ ret' = estimate_monthly_salary_from_text(arg.title, arg.responsibility,
                                                arg.requirement, arg.description_text)
    /\ UNCHANGED <<arg, state>>

-----------------------------------------------------------------------------
(* Texts for the estimate: a pay range per shift, followed by statements of
   the schedule *)

\* "4000-5000 за смену."
PayRange ==
    <<"4", "0", "0", "0", "-", "5", "0", "0", "0", " ", "Z", "A", " ", "S",
      "M", "E", "N", "U", ".">>

\* "18 смен в месяц."
Month18 ==
    <<"1", "8", " ", "S", "M", "E", "N", " ", "V", " ", "M", "E", "S", "YA",
      "C", ".">>

\* "15-20 смен/мес."
Month15to20 ==
    <<"1", "5", "-", "2", "0", " ", "S", "M", "E", "N", "/", "M", "E", "S",
      ".">>

\* "3 смены в неделю."
Week3 ==
    <<"3", " ", "S", "M", "E", "N", "Y", " ", "V", " ", "N", "E", "D", "E",
      "L", "YU", ".">>

\* "2–3 смены/нед."
Week2to3 ==
    <<"2", "EN_DASH", "3", " ", "S", "M", "E", "N", "Y", "/", "N", "E", "D",
      ".">>

\* "График 2/2."
Ratio2to2 ==
    <<"^G", "R", "A", "F", "I", "K", " ", "2", "/", "2", ".">>

\* "1 / 3."
Ratio1to3 ==
    <<"1", " ", "/", " ", "3", ".">>

\* "Сутки через двое."
SutkiDvoe ==
    <<"^S", "U", "T", "K", "I", " ", "CH", "E", "R", "E", "Z", " ", "D",
      "V", "O", "E", ".">>

\* "сутки через трое."
SutkiTroe ==
    <<"S", "U", "T", "K", "I", " ", "CH", "E", "R", "E", "Z", " ", "T", "R",
      "O", "E", ".">>

\* "сутки  через сутки."
SutkiSutki ==
    <<"S", "U", "T", "K", "I", " ", " ", "CH", "E", "R", "E", "Z", " ", "S",
      "U", "T", "K", "I", ".">>

MonthSignals == {Month18, Month15to20}
WeekSignals == {Week3, Week2to3}
RatioSignals == {Ratio2to2, Ratio1to3}
IdiomSignals == {SutkiDvoe, SutkiTroe, SutkiSutki}
SignalKinds == <<MonthSignals, WeekSignals, RatioSignals, IdiomSignals>>
Signals == UNION {SignalKinds[k] : k \in 1..Len(SignalKinds)}

\* Up to MaxSignals statements in any order, no two of one kind
MaxSignals == 2
SignalLists ==
    {s \in SeqsUpTo(Signals, MaxSignals) :
        \A i, j \in 1..Len(s) :
            i # j => ~\E k \in 1..Len(SignalKinds) : {s[i], s[j]} \subseteq SignalKinds[k]}

\* The pay in the title and the statements in the responsibility, or the pay
\* in the responsibility, the first statement in the requirement and the
\* others in the description
ScheduleArgs ==
    {[title |-> Text(PayRange), responsibility |-> Text(Join(s)),
      requirement |-> None, description_text |-> Text(<<>>)] : s \in SignalLists}
      \cup {[title |-> None, responsibility |-> Text(PayRange),
             requirement |-> Text(Head(s)), description_text |-> Text(Join(Tail(s)))] :
               s \in SignalLists \ {<<>>}}

InitEstimate == pc = "start" /\ arg \in ScheduleArgs /\ ret = None /\ state = None

NextEstimate == EstimateMonthlySalaryFromText

SpecEstimate == InitEstimate /\ [][NextEstimate]_vars

-----------------------------------------------------------------------------
(* C10 *)

\* The fragment occurs in the text
Has(t, fragment) ==
    \E i \in 1..(Len(t) - Len(fragment) + 1) : SubSeq(t, i, i + Len(fragment) - 1) = fragment

\* The shifts per month each statement stands for
CountOf(signal) ==
    CASE signal = Month18 -> Rat(18, 1)
      [] signal = Month15to20 -> Rat(15 + 20, 2)
      [] signal = Week3 -> Rat(3 * 433, 100)
      [] signal = Week2to3 -> Rat((2 + 3) * 433, 2 * 100)
      [] signal = Ratio2to2 -> Rat(30 * 2, 2 + 2)
      [] signal = Ratio1to3 -> Rat(30 * 1, 1 + 3)
      [] signal = SutkiDvoe -> Rat(10, 1)
      [] signal = SutkiTroe -> Rat(15, 2)
      [] signal = SutkiSutki -> Rat(15, 1)

\* The statements of kind k (1 per month, 2 per week, 3 ratio, 4 idiom) in
\* the text
Present(t, k) == {signal \in SignalKinds[k] : Has(t, signal)}

\* The count of the statement of the first kind that the text has, 15 when
\* it has none
RECURSIVE CountByPriority(_, _)
CountByPriority(t, k) ==
    IF k > Len(SignalKinds) THEN Rat(15, 1)
    ELSE IF Present(t, k) # {} THEN CountOf(CHOOSE signal \in Present(t, k) : TRUE)
    ELSE CountByPriority(t, k + 1)

\* The text of a call: its textual arguments, joined
AllText(a) ==
    LET text_of(x) == IF x.t = "str" THEN x.s ELSE <<>>
    IN  Join(<<text_of(a.title), text_of(a.responsibility), text_of(a.requirement),
               text_of(a.description_text)>>)

\* C10: for a text of the pay range 4000-5000 per shift and statements of the
\* schedule of different kinds, in any order, the estimate is 4500 times the
\* count of the statement of the highest kind present (per month, then per
\* week, then the on/off ratio, then the idiom), and 4500 * 15 with none.
C10_ShiftCountByPriority ==
    (pc = "estimate_monthly_salary_from_text" /\ arg \in ScheduleArgs)
        => ret = RMul(Rat(4500, 1), CountByPriority(AllText(arg), 1))

\* The ratio 1/3 comes first in the text and the three shifts per week win:
\* 4500 * 3 * 4.33
C10_Witness ==
    /\ pc = "estimate_monthly_salary_from_text"
    /\ arg.responsibility = Text(PayRange)
    /\ arg.requirement = Text(Ratio1to3)
    /\ arg.description_text = Text(Week3)
    /\ ret = Rat(58455, 1)
-----------------------------------------------------------------------------
(* Texts whose schedule implies fewer than 6 or more than 26 shifts a month *)

\* "30 смен в месяц."
Month30 ==
    <<"3", "0", " ", "S", "M", "E", "N", " ", "V", " ", "M", "E", "S", "YA",
      "C", ".">>

\* "3 смены в месяц."
Month3 ==
    <<"3", " ", "S", "M", "E", "N", "Y", " ", "V", " ", "M", "E", "S", "YA",
      "C", ".">>

\* "1 смена в неделю."
Week1 ==
    <<"1", " ", "S", "M", "E", "N", "A", " ", "V", " ", "N", "E", "D", "E",
      "L", "YU", ".">>

\* "7 смен в неделю."
Week7 ==
    <<"7", " ", "S", "M", "E", "N", " ", "V", " ", "N", "E", "D", "E", "L",
      "YU", ".">>

\* "1/6."
Ratio1to6 == <<"1", "/", "6", ".">>

\* "31/1."
Ratio31to1 == <<"3", "1", "/", "1", ".">>

ExtremeKinds == <<{Month30, Month3}, {Week1, Week7}, {Ratio1to6, Ratio31to1}, {}>>
AllKinds == [k \in 1..Len(SignalKinds) |-> SignalKinds[k] \cup ExtremeKinds[k]]
AllSignals == UNION {AllKinds[k] : k \in 1..Len(AllKinds)}

\* Up to MaxSignals statements in any order, no two of one kind
ClampLists ==
    {s \in SeqsUpTo(AllSignals, MaxSignals) :
        \A i, j \in 1..Len(s) :
            i # j => ~\E k \in 1..Len(AllKinds) : {s[i], s[j]} \subseteq AllKinds[k]}

\* The pay in the title and the statements in the description
ClampArgs ==
    {[title |-> Text(PayRange), responsibility |-> Text(<<>>),
      requirement |-> None, description_text |-> Text(Join(s))] : s \in ClampLists}

InitClamp == pc = "start" /\ arg \in ClampArgs /\ ret = None /\ state = None

SpecClamp == InitClamp /\ [][NextEstimate]_vars

-----------------------------------------------------------------------------
(* C11 *)

\* The shifts per month a statement stands for, before any clamp
ImpliedBy(signal) ==
    CASE signal \in Signals -> CountOf(signal)
      [] signal = Month30 -> Rat(30, 1)
      [] signal = Month3 -> Rat(3, 1)
      [] signal = Week1 -> Rat(433, 100)
      [] signal = Week7 -> Rat(7 * 433, 100)
      [] signal = Ratio1to6 -> Rat(30, 7)
      [] signal = Ratio31to1 -> Rat(30 * 31, 32)

\* The count the statement of the first kind in the text implies, 15 when
\* the text has none
RECURSIVE Implied(_, _)
Implied(t, k) ==
    IF k > Len(AllKinds) THEN Rat(15, 1)
    ELSE IF \E signal \in AllKinds[k] : Has(t, signal)
         THEN ImpliedBy(CHOOSE signal \in AllKinds[k] : Has(t, signal))
    ELSE Implied(t, k + 1)

\* C11: the estimate of a text with the pay range 4000-5000 per shift is
\* 4500 * k with 6 <= k <= 26: k is the count the schedule implies when that
\* lies in [6, 26], 6 when it implies fewer and 26 when it implies more.
C11_ShiftCountClamped ==
    (pc = "estimate_monthly_salary_from_text" /\ arg \in ClampArgs)
        => /\ ret # None
           /\ ~RLess(ret, Rat(4500 * 6, 1)) /\ ~RLess(Rat(4500 * 26, 1), ret)
           /\ ret = IF RLess(Implied(AllText(arg), 1), Rat(6, 1)) THEN Rat(4500 * 6, 1)
                    ELSE IF RLess(Rat(26, 1), Implied(AllText(arg), 1)) THEN Rat(4500 * 26, 1)
                    ELSE RMul(Rat(4500, 1), Implied(AllText(arg), 1))

\* Seven shifts a week, 30.31 a month, are lowered to 26 although the ratio
\* 1/6, raised to 6, stands first in the text
C11_Witness ==
    /\ pc = "estimate_monthly_salary_from_text"
    /\ arg.description_text = Text(Join(<<Ratio1to6, Week7>>))
    /\ ret = Rat(117000, 1)
-----------------------------------------------------------------------------
(* Texts of the pay per shift *)

\* Ranges of the pay, each closed by a semicolon
\* "4000-5000 за смену;"
RangeBeforeShift ==
    <<"4", "0", "0", "0", "-", "5", "0", "0", "0", " ", "Z", "A", " ", "S",
      "M", "E", "N", "U", ";">>

\* "за смену 6000-7000;"
RangeAfterShift ==
    <<"Z", "A", " ", "S", "M", "E", "N", "U", " ", "6", "0", "0", "0", "-",
      "7", "0", "0", "0", ";">>

\* "от 3000 до 4000 за смену;"
RangeFromTo ==
    <<"O", "T", " ", "3", "0", "0", "0", " ", "D", "O", " ", "4", "0", "0",
      "0", " ", "Z", "A", " ", "S", "M", "E", "N", "U", ";">>

\* Single amounts that the patterns of patterns_simple match: the digits of
\* the amount are followed by the characters "2," that these patterns ask for
\* "за смену 452,;"
SimpleAfterShift ==
    <<"Z", "A", " ", "S", "M", "E", "N", "U", " ", "4", "5", "2", ",", ";">>

\* "смена: 902,;"
SimpleAfterColon ==
    <<"S", "M", "E", "N", "A", ":", " ", "9", "0", "2", ",", ";">>

\* "посменно 612,;"
SimplePosmenno ==
    <<"P", "O", "S", "M", "E", "N", "N", "O", " ", "6", "1", "2", ",", ";">>

\* A single amount next to a shift marker
\* "Оплата за смену 4 500 ₽. График: 18 смен в месяц"
PerShiftMonth18 ==
    <<"^O", "P", "L", "A", "T", "A", " ", "Z", "A", " ", "S", "M", "E", "N",
      "U", " ", "4", " ", "5", "0", "0", " ", "RUB_SIGN", ".", " ", "^G", "R",
      "A", "F", "I", "K", ":", " ", "1", "8", " ", "S", "M", "E", "N", " ",
      "V", " ", "M", "E", "S", "YA", "C">>

\* "Оплата за см. 4500"
PerSm ==
    <<"^O", "P", "L", "A", "T", "A", " ", "Z", "A", " ", "S", "M", ".", " ",
      "4", "5", "0", "0">>

\* "за смену 4500"
ZaSmenu ==
    <<"Z", "A", " ", "S", "M", "E", "N", "U", " ", "4", "5", "0", "0">>

\* "4500 ₽/смена"
RubPerSmena ==
    <<"4", "5", "0", "0", " ", "RUB_SIGN", "/", "S", "M", "E", "N", "A">>

\* "смена: 4500"
SmenaColon ==
    <<"S", "M", "E", "N", "A", ":", " ", "4", "5", "0", "0">>

\* "4500/смена"
SlashSmena ==
    <<"4", "5", "0", "0", "/", "S", "M", "E", "N", "A">>

\* "посменная оплата: 4500"
PosmennayaOplata ==
    <<"P", "O", "S", "M", "E", "N", "N", "A", "YA", " ", "O", "P", "L", "A",
      "T", "A", ":", " ", "4", "5", "0", "0">>

\* Two amounts next to a shift marker
\* "4 000–5 000 руб/смена"
RangeRubSmena ==
    <<"4", " ", "0", "0", "0", "EN_DASH", "5", " ", "0", "0", "0", " ", "R",
      "U", "B", "/", "S", "M", "E", "N", "A">>

\* "Посменная оплата: 4000–5000"
PosmennayaRange ==
    <<"^P", "O", "S", "M", "E", "N", "N", "A", "YA", " ", "O", "P", "L", "A",
      "T", "A", ":", " ", "4", "0", "0", "0", "EN_DASH", "5", "0", "0", "0">>

\* "От 4000 до 5000 за смену"
OtDoZaSmenu ==
    <<"^O", "T", " ", "4", "0", "0", "0", " ", "D", "O", " ", "5", "0", "0",
      "0", " ", "Z", "A", " ", "S", "M", "E", "N", "U">>

\* "4-5 т.р/см."
ThousandsRange ==
    <<"4", "-", "5", " ", "T", ".", "R", "/", "S", "M", ".">>

\* Amounts in thousands
\* "4.5 тыс/см."
TysDot ==
    <<"4", ".", "5", " ", "T", "Y", "S", "/", "S", "M", ".">>

\* "4,5 тыс/см."
TysComma ==
    <<"4", ",", "5", " ", "T", "Y", "S", "/", "S", "M", ".">>

\* "Смена 4.5 тыс"
SmenaTys ==
    <<"^S", "M", "E", "N", "A", " ", "4", ".", "5", " ", "T", "Y", "S">>

\* "4500/см."
PlainSm ==
    <<"4", "5", "0", "0", "/", "S", "M", ".">>

\* Colloquial and English markers
\* "Оплата 4000 в смену, 3 смены в неделю"
VSmenuWeek3 ==
    <<"^O", "P", "L", "A", "T", "A", " ", "4", "0", "0", "0", " ", "V", " ",
      "S", "M", "E", "N", "U", ",", " ", "3", " ", "S", "M", "E", "N", "Y",
      " ", "V", " ", "N", "E", "D", "E", "L", "YU">>

\* "Ставка 5000 за сутки, график сутки через двое"
ZaSutkiDvoe ==
    <<"^S", "T", "A", "V", "K", "A", " ", "5", "0", "0", "0", " ", "Z", "A",
      " ", "S", "U", "T", "K", "I", ",", " ", "G", "R", "A", "F", "I", "K",
      " ", "S", "U", "T", "K", "I", " ", "CH", "E", "R", "E", "Z", " ", "D",
      "V", "O", "E">>

\* "Оплата смены: 4500"
OplataSmeny ==
    <<"^O", "P", "L", "A", "T", "A", " ", "S", "M", "E", "N", "Y", ":", " ",
      "4", "5", "0", "0">>

\* "Pay 4000 RUB per shift, 18 смен/мес"
PerShiftEnglish ==
    <<"^p", "a", "y", " ", "4", "0", "0", "0", " ", "^r", "^u", "^b", " ",
      "p", "e", "r", " ", "s", "h", "i", "f", "t", ",", " ", "1", "8", " ",
      "S", "M", "E", "N", "/", "M", "E", "S">>

\* A count of shifts with the period first
\* "в мес 20 смен."
MonthReversed ==
    <<"V", " ", "M", "E", "S", " ", "2", "0", " ", "S", "M", "E", "N", ".">>

RangeFragments == {RangeBeforeShift, RangeAfterShift, RangeFromTo}
SimpleFragments == {SimpleAfterShift, SimpleAfterColon, SimplePosmenno}

\* Up to MaxFragments different fragments in any order
MaxFragments == 2
MixLists ==
    {s \in SeqsUpTo(RangeFragments \cup SimpleFragments, MaxFragments) :
        \A i, j \in 1..Len(s) : i # j => s[i] # s[j]}

\* A call as the tests make it: the text is the responsibility
TextArg(t) ==
    [title |-> Text(<<>>), responsibility |-> Text(t), requirement |-> None,
     description_text |-> Text(<<>>)]

MixArgs == {TextArg(Join(s)) : s \in MixLists}

SinglePayTexts == {PerShiftMonth18, PerSm, ZaSmenu, RubPerSmena, SmenaColon, SlashSmena, PosmennayaOplata}
RangePayTexts == {RangeRubSmena, PosmennayaRange, OtDoZaSmenu, ThousandsRange}
ThousandPayTexts == {TysDot, TysComma, SmenaTys, PlainSm}
ColloquialPayTexts == {VSmenuWeek3, ZaSutkiDvoe, OplataSmeny, PerShiftEnglish}
TestArgs ==
    {TextArg(t) : t \in SinglePayTexts \cup RangePayTexts \cup ThousandPayTexts
                          \cup ColloquialPayTexts}

\* Arguments that are no text: None, numbers and dicts, next to texts with
\* and without a pay, and a text on which the function raises inside
NonTexts ==
    {None, Num(0), Num(5), Dict(Absent, Absent, Absent, Absent),
     Dict(Num(1), Absent, Absent, Absent)}
AnyArgs ==
    {[title |-> a, responsibility |-> b, requirement |-> c, description_text |-> d] :
        a \in {Text(<<>>), Text(PayRange)},
        b \in NonTexts \cup {Text(<<>>), Text(MonthReversed), Text(Month18)},
        c \in {None, Num(5), Text(Ratio2to2)},
        d \in {None, Text(<<>>), Dict(Absent, Num(1), Absent, Absent)}}

PayArgs == MixArgs \cup TestArgs \cup AnyArgs

InitPay == pc = "start" /\ arg \in PayArgs /\ ret = None /\ state = None

SpecPay == InitPay /\ [][NextEstimate]_vars
-----------------------------------------------------------------------------
(* C12 *)

\* The amounts each fragment gives rise to, as their sum and their number:
\* "за смену 6000-7000" is matched by two range patterns and "за смену 452,"
\* by two simple ones
RangeTable ==
    <<[text |-> RangeBeforeShift, sum |-> 4500, count |-> 1],
      [text |-> RangeAfterShift, sum |-> 6500 + 6500, count |-> 2],
      [text |-> RangeFromTo, sum |-> 3500, count |-> 1]>>
SimpleTable ==
    <<[text |-> SimpleAfterShift, sum |-> 452 + 452, count |-> 2],
      [text |-> SimpleAfterColon, sum |-> 902, count |-> 1],
      [text |-> SimplePosmenno, sum |-> 612, count |-> 1]>>

\* The rows of a table whose fragment the text has
RowsIn(table, t) == SelectSeq(table, LAMBDA row : Has(t, row.text))

\* The mean of the amounts of the rows, times the 15 shifts of a text that
\* states no schedule
MeanTimes15(rows) ==
    RMul(Rat(Sum([k \in 1..Len(rows) |-> rows[k].sum]),
             Sum([k \in 1..Len(rows) |-> rows[k].count])),
         Rat(15, 1))

\* C12: when a text has a range of the pay, the rate per shift is the mean of
\* the range amounts alone, whatever single amounts the text has as well;
\* the single amounts are averaged only when the text has no range.
C12_RangeCandidatesOnly ==
    (pc = "estimate_monthly_salary_from_text" /\ arg \in MixArgs)
        => ret = IF RowsIn(RangeTable, arg.responsibility.s) # <<>>
                 THEN MeanTimes15(RowsIn(RangeTable, arg.responsibility.s))
                 ELSE IF RowsIn(SimpleTable, arg.responsibility.s) # <<>>
                      THEN MeanTimes15(RowsIn(SimpleTable, arg.responsibility.s))
                 ELSE None

\* The single amount 902 stands before the range 3000..4000 and is left out:
\* 3500 * 15
C12_Witness ==
    /\ pc = "estimate_monthly_salary_from_text"
    /\ arg = TextArg(Join(<<SimpleAfterColon, RangeFromTo>>))
    /\ ret = Rat(52500, 1)
-----------------------------------------------------------------------------
(* C13 *)

\* C13: a text with one amount N next to a shift marker ("за смену N",
\* "N ₽/смена", "смена: N", "N/смена", "посменная оплата: N") and no range is
\* estimated at N times the monthly shift count: 4500 * 18 with 18 shifts a
\* month stated, 4500 * 15 without a schedule.
C13_SingleAmountTimesShiftCount ==
    (pc = "estimate_monthly_salary_from_text" /\ arg \in {TextArg(t) : t \in SinglePayTexts})
        => ret = IF arg = TextArg(PerShiftMonth18) THEN Rat(4500 * 18, 1)
                 ELSE Rat(4500 * 15, 1)

-----------------------------------------------------------------------------
(* C14 *)

\* C14: a range of two amounts next to a shift marker gives the mean of the
\* two as the rate: "4 000–5 000 руб/смена", "Посменная оплата: 4000–5000",
\* "От 4000 до 5000 за смену" and "4-5 т.р/см." are each estimated at
\* 4500 * 15.
C14_RangeGivesMeanOfBounds ==
    (pc = "estimate_monthly_salary_from_text" /\ arg \in {TextArg(t) : t \in RangePayTexts})
        => ret = Rat(4500 * 15, 1)

-----------------------------------------------------------------------------
(* C15 *)

\* C15: "4.5 тыс/см.", "4,5 тыс/см.", "Смена 4.5 тыс" and "4500/см." have the
\* same rate 4500 and so the same estimate 4500 * 15.
C15_ThousandMarkerSameRate ==
    (pc = "estimate_monthly_salary_from_text" /\ arg \in {TextArg(t) : t \in ThousandPayTexts})
        => ret = Rat(4500 * 15, 1)

-----------------------------------------------------------------------------
(* C16 *)

\* The value is a float
IsFloat(x) == DOMAIN x = {"n", "d"}

\* The text of the call has no shift word: every pattern of the pay asks for
\* "смен..." or "см"
NoShiftWord(a) == ~Has(Lower(AllText(a)), <<"S", "M">>)

\* C16: whatever the arguments, None, numbers and dicts among them, the
\* function returns a float or None and never an exception; it returns None
\* for a text in which no pattern of the pay can match.
C16_FloatOrNoneNeverRaises ==
    pc = "estimate_monthly_salary_from_text"
        => /\ ret = None \/ IsFloat(ret)
           /\ NoShiftWord(arg) => ret = None

\* The responsibility is the number 5, on which " ".join raises TypeError,
\* next to a title with a pay range: the result is None
C16_Witness ==
    /\ pc = "estimate_monthly_salary_from_text"
    /\ arg.title = Text(PayRange)
    /\ arg.responsibility = Num(5)
    /\ ret = None

-----------------------------------------------------------------------------
(* C20 *)

\* C20: the markers "N в смену", "N за сутки", "оплата смены: N" and
\* "N RUB per shift" give the rate N: 4000 * 3 * 4.33 with 3 shifts a week,
\* 5000 * 10 with "сутки через двое", 4500 * 15 without a schedule and
\* 4000 * 18 with 18 shifts a month.
C20_ColloquialMarkersRecognised ==
    (pc = "estimate_monthly_salary_from_text" /\ arg \in {TextArg(t) : t \in ColloquialPayTexts})
        => ret = CASE arg = TextArg(VSmenuWeek3) -> RMul(Rat(4000 * 3, 1), Rat(433, 100))
                   [] arg = TextArg(ZaSutkiDvoe) -> Rat(5000 * 10, 1)
                   [] arg = TextArg(OplataSmeny) -> Rat(4500 * 15, 1)
                   [] arg = TextArg(PerShiftEnglish) -> Rat(4000 * 18, 1)
-----------------------------------------------------------------------------
(* hh_parser_ver2.extract_vacancy_fields and parse_vacancies *)

\* A raw vacancy of the API: name and description_text are None or a text,
\* snippet, schedule and employer are None or an object, salary is None or a
\* salary object
RawVacancy(id, name, snippet, description_text, salary, schedule, employer) ==
    [id |-> id, name |-> name, snippet |-> snippet, description_text |-> description_text,
     salary |-> salary, schedule |-> schedule, employer |-> employer]

Snippet(responsibility, requirement) ==
    [responsibility |-> responsibility, requirement |-> requirement]
Schedule(name) == [name |-> name]
Employer(id, trusted) == [id |-> id, trusted |-> trusted]

\* (v.get(key) or {}).get(field)
Field(obj, field) == IF obj = None THEN None ELSE obj[field]

\* x or y
Or(x, y) == IF Truthy(x) THEN x ELSE y

\* A variant that puts the estimate in the place of the average
salary_avg_final_estimate_first(salary_avg_base, salary_estimated_monthly) ==
    IF salary_estimated_monthly # None THEN salary_estimated_monthly ELSE salary_avg_base

\* salary_avg_final = salary_avg_base
salary_avg_final(salary_avg_base, salary_estimated_monthly) == salary_avg_base

\* The dict returned; employer_trusted is kept as its truth value, which is
\* all that compute_employer_marks reads of it
extracted(v, title, responsibility_text, requirement_text, salary_estimated_monthly) ==
    [id |-> v.id,
     title |-> title,
     salary |-> v.salary,
     salary_avg |-> salary_avg_final(normalize_salary(v.salary), salary_estimated_monthly),
     salary_estimated_monthly |-> salary_estimated_monthly,
     salary_per_shift |-> salary_estimated_monthly # None,
     responsibility |-> responsibility_text,
     requirement |-> requirement_text,
     employer_id |-> Field(v.employer, "id"),
     employer_trusted |-> IF v.employer = None THEN FALSE ELSE v.employer.trusted,
     schedule |-> Field(v.schedule, "name")]

extracted_from(v, title, responsibility_text, requirement_text, description_text) ==
    extracted(v, title, responsibility_text, requirement_text,
              estimate_monthly_salary_from_text(title, responsibility_text, requirement_text,
                                                description_text))

extract_vacancy_fields(v) ==
    extracted_from(v, Or(v.name, Text(<<>>)),
                   Or(Or(Field(v.snippet, "responsibility"), Text(<<>>)),
                      Or(v.description_text, Text(<<>>))),
                   Field(v.snippet, "requirement"),
                   Or(v.description_text, Text(<<>>)))

ExtractVacancyFields ==
    /\ pc = "start"
    /\ pc' = "extract_vacancy_fields"
    /\ ret' = extract_vacancy_fields(arg)
    /\ UNCHANGED <<arg, state>>

\* "Вахтовый метод"
ROTATIONAL ==
    Text(<<"^V", "A", "H", "T", "O", "V", "Y", "J", " ", "M", "E", "T", "O", "D">>)

\* A variant that also drops the vacancies without a schedule
is_kept_with_schedule_only(parsed_item) ==
    parsed_item.schedule # None /\ parsed_item.schedule # ROTATIONAL

\* parsed_item.get("schedule") != "Вахтовый метод"
is_kept(parsed_item) == parsed_item.schedule # ROTATIONAL

\* p["employer_mark"] = mark
with_mark(p, mark) ==
    [f \in DOMAIN p \cup {"employer_mark"} |-> IF f = "employer_mark" THEN mark ELSE p[f]]

\* computed.get(eid) for every item
marked(parsed, computed) ==
    [i \in 1..Len(parsed) |->
        with_mark(parsed[i], IF parsed[i].employer_id \in DOMAIN computed
                             THEN computed[parsed[i].employer_id] ELSE None)]

parsed_with_marks(parsed, with_employer_mark) ==
    IF with_employer_mark THEN marked(parsed, compute_employer_marks(parsed)) ELSE parsed

parse_vacancies(items, with_employer_mark) ==
    parsed_with_marks(SelectSeq([i \in 1..Len(items) |-> extract_vacancy_fields(items[i])],
                                is_kept),
                      with_employer_mark)

ParseVacancies ==
    /\ pc = "start"
    /\ pc' = "parse_vacancies"
    /\ ret' = parse_vacancies(arg.items, arg.with_employer_mark)
    /\ UNCHANGED <<arg, state>>

-----------------------------------------------------------------------------
(* Raw vacancies *)

\* "Охранник"
Guard == <<"^O", "H", "R", "A", "N", "N", "I", "K">>

\* "вахтовый метод", which is not the label
RotationalLowercase ==
    Text(<<"V", "A", "H", "T", "O", "V", "Y", "J", " ", "M", "E", "T", "O", "D">>)

\* "Полный день"
FullDayName == Text(<<"^P", "O", "L", "N", "Y", "J", " ", "D", "E", "N", "SOFT">>)

From100To150 == Dict(Absent, Num(Rub(100000)), Num(Rub(150000)), Absent)

\* Every combination of a name, a snippet, a description, a salary, a
\* schedule and an employer
RawVacancies ==
    {RawVacancy(Text("v1"), name, snippet, description_text, salary, schedule, employer) :
        name \in {None, Text(Guard)},
        snippet \in {None, Snippet(None, None), Snippet(Text(PayRange), Text(Ratio2to2)),
                     Snippet(Text(<<>>), Text(Week3))},
        description_text \in {None, Text(RangeFromTo), Text(Month18)},
        salary \in {None, Str, From100To150},
        schedule \in {None, Schedule(ROTATIONAL), Schedule(FullDayName)},
        employer \in {None, Employer(Text("e1"), TRUE)}}

InitExtract == pc = "start" /\ arg \in RawVacancies /\ ret = None /\ state = None

NextExtract == ExtractVacancyFields

SpecExtract == InitExtract /\ [][NextExtract]_vars

\* Vacancies of two employers and of none, three of them rotational
ParsedRaw ==
    {RawVacancy(Text("v1"), Text(Guard), None, None, From100To150, Schedule(ROTATIONAL),
                Employer(Text("e1"), TRUE)),
     RawVacancy(Text("v2"), Text(Guard), Snippet(Text(PayRange), None), None, None,
                Schedule(FullDayName), Employer(Text("e1"), FALSE)),
     RawVacancy(Text("v3"), None, None, None, Dict(Absent, Num(Rub(50000)), None, Absent),
                None, Employer(Text("e2"), TRUE)),
     RawVacancy(Text("v4"), None, None, Text(RangeFromTo), Dict(Num(Rub(70000)), Absent, Absent, Absent),
                Schedule(RotationalLowercase), None),
     RawVacancy(Text("v5"), Text(Guard), None, None, Dict(Num(Rub(200000)), Absent, Absent, Absent),
                Schedule(ROTATIONAL), Employer(Text("e2"), FALSE)),
     RawVacancy(Text("v6"), None, Snippet(None, Text(Week3)), Text(PayRange), None,
                Schedule(ROTATIONAL), None)}

\* Lists of up to MaxRaw raw vacancies, parsed with and without the marks
MaxRaw == 2
ParseArgs ==
    {[items |-> items, with_employer_mark |-> flag] :
        items \in SeqsUpTo(ParsedRaw, MaxRaw), flag \in BOOLEAN}

InitParse == pc = "start" /\ arg \in ParseArgs /\ ret = None /\ state = None

NextParse == ParseVacancies

SpecParse == InitParse /\ [][NextParse]_vars
-----------------------------------------------------------------------------
(* C17 *)

\* The average of the salary object of a raw vacancy: 125000 for 100000 to
\* 150000, none for no object and for a string
ExpectedAverage(salary) == IF salary = From100To150 THEN Num(Rub(125000)) ELSE None

\* The texts of the raw vacancy state a pay per shift: the range in the
\* responsibility of the snippet or in the description
PayStated(v) ==
    \/ Field(v.snippet, "responsibility") = Text(PayRange)
    \/ v.description_text = Text(RangeFromTo)

\* C17: extract_vacancy_fields sets salary_per_shift exactly when it has an
\* estimate, which is exactly when the texts state a pay per shift, and
\* salary_avg is the average of the salary object, with and without an
\* estimate, and never the estimate.
C17_PerShiftFlagAndAverageApart ==
    pc = "extract_vacancy_fields"
        => /\ ret.salary_per_shift = (ret.salary_estimated_monthly # None)
           /\ ret.salary_per_shift = PayStated(arg)
           /\ ret.salary_avg = ExpectedAverage(arg.salary)
           /\ ret.salary_avg = normalize_salary(ret.salary)

\* A vacancy with the salary 100000 to 150000 and the pay range 4000-5000
\* per shift on a 2/2 schedule: the average is 125000 next to the estimate
\* 67500
C17_Witness ==
    /\ pc = "extract_vacancy_fields"
    /\ arg.salary = From100To150
    /\ arg.snippet = Snippet(Text(PayRange), Text(Ratio2to2))
    /\ ret.salary_per_shift
    /\ ret.salary_estimated_monthly = Rat(67500, 1)
    /\ ret.salary_avg = Num(Rub(125000))

-----------------------------------------------------------------------------
(* C18 *)

\* The schedule of the raw vacancy is named "Вахтовый метод"
IsRotational(v) == v.schedule # None /\ v.schedule.name = ROTATIONAL

\* The raw vacancies that are not rotational, in their order
NotRotational(items) == SelectSeq(items, LAMBDA v : ~IsRotational(v))

\* C18: parse_vacancies returns the records of exactly the vacancies whose
\* schedule is not "Вахтовый метод", in the order of the input, and returns
\* what it returns for the input without the rotational vacancies, marks
\* included: the dropped vacancies take no part in the employer marks.
C18_RotationalDropped ==
    pc = "parse_vacancies"
        => /\ [i \in 1..Len(ret) |-> ret[i].id]
                 = [i \in 1..Len(NotRotational(arg.items)) |-> NotRotational(arg.items)[i].id]
           /\ ret = parse_vacancies(NotRotational(arg.items), arg.with_employer_mark)

\* The rotational vacancy v1 of the trusted employer e1 is dropped, and the
\* mark of e1 is that of its other vacancy v2 alone: 1 + 4 * 0.1
C18_Witness ==
    /\ pc = "parse_vacancies"
    /\ arg.with_employer_mark
    /\ Len(arg.items) = 2 /\ arg.items[1].id = Text("v1") /\ arg.items[2].id = Text("v2")
    /\ Len(ret) = 1
    /\ ret[1].id = Text("v2")
    /\ ret[1].employer_mark = Rat(7, 5)
-----------------------------------------------------------------------------
(* _parse_ruble_amount on numeric tokens in a context *)

\* "3 500"
SpaceGrouped == <<"3", " ", "5", "0", "0">>

\* "3.500"
DotGrouped == <<"3", ".", "5", "0", "0">>

\* "3,500"
CommaGrouped == <<"3", ",", "5", "0", "0">>

\* "4,5"
CommaDecimal == <<"4", ",", "5">>

\* "4.5"
DotDecimal == <<"4", ".", "5">>

\* "1.234.567"
TwoDots == <<"1", ".", "2", "3", "4", ".", "5", "6", "7">>

\* "1000"
Thousand == <<"1", "0", "0", "0">>

\* "1001"
ThousandAndOne == <<"1", "0", "0", "1">>

\* "4500", "999", "1000,5", "0,5", "12,345.6", "3\xa0500", "12 345 678", "abc", "", " 45 "
OtherTokens ==
    {<<"4", "5", "0", "0">>,
     <<"9", "9", "9">>,
     <<"1", "0", "0", "0", ",", "5">>,
     <<"0", ",", "5">>,
     <<"1", "2", ",", "3", "4", "5", ".", "6">>,
     <<"3", "NBSP", "5", "0", "0">>,
     <<"1", "2", " ", "3", "4", "5", " ", "6", "7", "8">>,
     <<"a", "b", "c">>,
     <<>>,
     <<" ", "4", "5", " ">>}

AmountTokens ==
    {SpaceGrouped, DotGrouped, CommaGrouped, CommaDecimal, DotDecimal, TwoDots, Thousand, ThousandAndOne} \cup OtherTokens

\* What follows the token in the matched text:
\* "", " тыс", " тысяч", " ТЫС.", " т.р.", " т. р", "тр", "k", "K", " к", " кг", " руб", " трактор"
ContextSuffixes ==
    {<<>>,
     <<" ", "T", "Y", "S">>,
     <<" ", "T", "Y", "S", "YA", "CH">>,
     <<" ", "^T", "^Y", "^S", ".">>,
     <<" ", "T", ".", "R", ".">>,
     <<" ", "T", ".", " ", "R">>,
     <<"T", "R">>,
     <<"k">>,
     <<"^k">>,
     <<" ", "K">>,
     <<" ", "K", "G">>,
     <<" ", "R", "U", "B">>,
     <<" ", "T", "R", "A", "K", "T", "O", "R">>}

\* A call with the matched text and its numeric group, as lines 236, 258 and
\* 259 make it, or with the matched text alone
AmountArgs ==
    UNION {{[text_full |-> Text(token \o suffix), numeric_group |-> Text(token)],
            [text_full |-> Text(token \o suffix), numeric_group |-> None]} :
              token \in AmountTokens, suffix \in ContextSuffixes}

ParseRubleAmount ==
    /\ pc = "start"
    /\ pc' = "_parse_ruble_amount"
    /\ ret' = _parse_ruble_amount(arg.text_full, arg.numeric_group)
    /\ UNCHANGED <<arg, state>>

InitAmount == pc = "start" /\ arg \in AmountArgs /\ ret = None /\ state = None
NextAmount == ParseRubleAmount
SpecAmount == InitAmount /\ [][NextAmount]_vars

-----------------------------------------------------------------------------
(* Claims about _parse_ruble_amount *)

AllDigits(t) == \A k \in 1..Len(t) : t[k] \in DigitChars

\* The shapes of a token as the text of the claim gives them
IsSpaceGrouped(t) ==
    /\ \E k \in 1..3 : k < Len(t) /\ AllDigits(SubSeq(t, 1, k)) /\ (Len(t) - k) % 4 = 0
         /\ \A i \in k + 1..Len(t) :
               IF (i - k) % 4 = 1 THEN t[i] \in SpaceChars ELSE t[i] \in DigitChars
IsSeparatorGrouped(t) ==
    \E k \in 1..3 :
        /\ Len(t) = k + 4
        /\ AllDigits(SubSeq(t, 1, k))
        /\ t[k + 1] \in {".", ","}
        /\ AllDigits(SubSeq(t, k + 2, k + 4))
IsTrueDecimal(t) ==
    \E k \in 1..Len(t) - 2 :
        /\ AllDigits(SubSeq(t, 1, k))
        /\ t[k + 1] \in {".", ","}
        /\ AllDigits(SubSeq(t, k + 2, Len(t)))

\* The number the claim gives to a token
ClaimedNumber(t) ==
    IF IsSpaceGrouped(t) \/ IsSeparatorGrouped(t)
    THEN Rat(DigitsValue(Without(t, SpaceChars \cup {".", ","})), 1)
    ELSE IF IsTrueDecimal(t) THEN DecimalValue(t)
    ELSE IF IsDigit(Without(t, SpaceChars \cup {".", ","}))
         THEN Rat(DigitsValue(Without(t, SpaceChars \cup {".", ","})), 1)
    ELSE None

\* C21: a token alone, with nothing around it, parses by its shape: "3 500",
\* "3.500" and "3,500" to 3500, "4,5" to 4.5, any other token to its digits
\* with the separators removed.
C21_ClassifiedByShape ==
    (pc = "_parse_ruble_amount" /\ arg.numeric_group # None
        /\ arg.text_full = arg.numeric_group)
    => /\ ret = ClaimedNumber(Strip(arg.text_full.s))
       /\ arg.text_full.s \in {SpaceGrouped, DotGrouped, CommaGrouped} => ret = Rat(3500, 1)
       /\ arg.text_full.s = CommaDecimal => ret = Rat(9, 2)

\* A thousands marker in a lowercased context, as the claim lists them: "тыс"
\* (and so "тысяч"), "т" and "р" with an optional dot and blanks between, and
\* "k" or "к" at the end of a word
MarkerIn(t) ==
    \E i \in 1..Len(t) :
        \/ i + 2 <= Len(t) /\ SubSeq(t, i, i + 2) = <<"T", "Y", "S">>
        \/ /\ t[i] = "T"
           /\ \E j \in i + 1..Len(t) :
                /\ t[j] = "R"
                /\ \A k \in i + 1..j - 1 : t[k] \in SpaceChars \/ (k = i + 1 /\ t[k] = ".")
        \/ t[i] \in {"k", "K"} /\ (i = Len(t) \/ t[i + 1] \notin WordChars)

\* The token of a call: the numeric group unless it is missing or blank
TokenOf(a) ==
    Strip(ReplaceChar(IF a.numeric_group # None /\ Strip(a.numeric_group.s) # <<>>
                      THEN a.numeric_group.s ELSE a.text_full.s, "NBSP", " "))

\* C22: the result is the base number times 1000 when the context has a
\* thousands marker and the base number is at most 1000, and the base number
\* itself otherwise; no result without a base number.
C22_ThousandMarkerUpTo1000 ==
    pc = "_parse_ruble_amount" =>
        LET base == base_num(TokenOf(arg))
        IN  ret = IF base = None THEN None
                  ELSE IF MarkerIn(Lower(arg.text_full.s)) /\ ~RLess(Rat(1000, 1), base)
                       THEN RMul(base, Rat(1000, 1))
                  ELSE base

\* "1000 тыс" is multiplied, "1001 тыс" is not
C22_Witness ==
    /\ pc = "_parse_ruble_amount"
    /\ arg.numeric_group = Text(Thousand)
    /\ MarkerIn(Lower(arg.text_full.s))
    /\ ret = Rat(1000000, 1)
-----------------------------------------------------------------------------
(* One statement of the schedule after the pay range 4000-5000 per shift *)

\* str(n) of a natural number
RECURSIVE Digits(_)
Digits(n) == IF n < 10 THEN <<ToString(n)>> ELSE Digits(n \div 10) \o <<ToString(n % 10)>>

\* The counts of shifts stated per month and per week, and the days of an
\* on/off ratio
MaxPerMonth == 31
MaxPerWeek == 7
RatioDays == {0, 1, 2, 5, 31, 32}

Statement(kind, n, m) == [kind |-> kind, n |-> n, m |-> m]

Statements ==
    {Statement("month", n, 0) : n \in 1..MaxPerMonth}
      \cup {Statement("month_range", 15, 20), Statement("month_range", 10, 11),
            Statement("month_range", 2, 3)}
      \cup {Statement("week", n, 0) : n \in 1..MaxPerWeek}
      \cup {Statement("week_range", 2, 3), Statement("week_range", 3, 4)}
      \cup {Statement("ratio", on, off) : on \in RatioDays, off \in RatioDays}
      \cup {Statement("idiom", off, 0) : off \in 1..3}
      \cup {Statement("none", 0, 0)}
      \cup {Statement("month_reversed", n, 0) : n \in {3, 20}}
      \cup {Statement("week_reversed", n, 0) : n \in {3}}

\* "N смен в месяц.", "N-M смен в месяц.", "N смен в неделю.", "N-M смен в
\* неделю.", "N/M.", "сутки через сутки|двое|трое.", "график.", "в мес N смен."
\* and "в неделю N смен."
PerMonth == <<" ", "S", "M", "E", "N", " ", "V", " ", "M", "E", "S", "YA", "C", ".">>
PerWeek == <<" ", "S", "M", "E", "N", " ", "V", " ", "N", "E", "D", "E", "L", "YU", ".">>
StatementText(d) ==
    CASE d.kind = "month" -> Digits(d.n) \o PerMonth
      [] d.kind = "month_range" -> Digits(d.n) \o <<"-">> \o Digits(d.m) \o PerMonth
      [] d.kind = "week" -> Digits(d.n) \o PerWeek
      [] d.kind = "week_range" -> Digits(d.n) \o <<"-">> \o Digits(d.m) \o PerWeek
      [] d.kind = "ratio" -> Digits(d.n) \o <<"/">> \o Digits(d.m) \o <<".">>
      [] d.kind = "idiom" ->
            <<"S", "U", "T", "K", "I", " ", "CH", "E", "R", "E", "Z", " ">>
              \o (CASE d.n = 1 -> <<"S", "U", "T", "K", "I">>
                    [] d.n = 2 -> <<"D", "V", "O", "E">>
                    [] d.n = 3 -> <<"T", "R", "O", "E">>) \o <<".">>
      [] d.kind = "none" -> <<"G", "R", "A", "F", "I", "K", ".">>
      [] d.kind = "month_reversed" ->
            <<"V", " ", "M", "E", "S", " ">> \o Digits(d.n) \o <<" ", "S", "M", "E", "N", ".">>
      [] d.kind = "week_reversed" ->
            <<"V", " ", "N", "E", "D", "E", "L", "YU", " ">> \o Digits(d.n)
              \o <<" ", "S", "M", "E", "N", ".">>

\* The pay in the title and the statement in the description
StatementArg(d) ==
    [title |-> Text(PayRange), responsibility |-> Text(<<>>),
     requirement |-> None, description_text |-> Text(StatementText(d))]

InitStatement == pc = "start" /\ arg \in {StatementArg(d) : d \in Statements} /\ ret = None /\ state = None

SpecStatement == InitStatement /\ [][NextEstimate]_vars

-----------------------------------------------------------------------------
(* C23, C24 *)

\* The shifts per month of a statement, as the claim gives them
ClaimedShifts(d) ==
    CASE d.kind \in {"month", "month_reversed"} -> Rat(d.n, 1)
      [] d.kind = "month_range" -> Rat(d.n + d.m, 2)
      [] d.kind \in {"week", "week_reversed"} -> Rat(d.n * 433, 100)
      [] d.kind = "week_range" -> Rat((d.n + d.m) * 433, 2 * 100)
      [] d.kind = "ratio" ->
            IF 0 < d.n /\ d.n <= 31 /\ 0 < d.m /\ d.m <= 31
            THEN Rat(30 * d.n, d.n + d.m) ELSE Rat(15, 1)
      [] d.kind = "idiom" ->
            (CASE d.n = 1 -> Rat(15, 1) [] d.n = 2 -> Rat(10, 1) [] d.n = 3 -> Rat(15, 2))
      [] d.kind = "none" -> Rat(15, 1)

\* 4500 a shift for the claimed shifts, kept within 6 and 26
ClaimedEstimate(d) ==
    RMul(Rat(4500, 1), RMax(Rat(6, 1), RMin(Rat(26, 1), ClaimedShifts(d))))

DirectKinds == {"month", "month_range", "week", "week_range", "ratio", "idiom", "none"}

\* C23: after the pay range 4000-5000 per shift, one statement of the
\* schedule in direct order gives 4500 times its shifts per month, kept
\* within 6 and 26: N or the mean of N and M per month, 4.33 times that per
\* week, 30 * on / (on + off) for a ratio of days in 1..31, 10, 7.5 and 15 for
\* the idioms, and 15 for no statement or a ratio out of 1..31.
C23_SignalGivesShiftCount ==
    pc = "estimate_monthly_salary_from_text" =>
        \A d \in Statements :
            (d.kind \in DirectKinds /\ arg = StatementArg(d)) => ret = ClaimedEstimate(d)

\* "2-3 смен в неделю": 4500 * 2.5 * 4.33
C23_Witness ==
    /\ pc = "estimate_monthly_salary_from_text"
    /\ arg = StatementArg(Statement("week_range", 2, 3))
    /\ ret = Rat(97425, 2)

\* C24: a count of shifts written with the period first, "в мес N смен" or
\* "в неделю N смен", gives the same estimate as the direct form, 4500 * N
\* and 4500 * N * 4.33 after the pay range 4000-5000 per shift.
C24_ReversedOrderHonoured ==
    pc = "estimate_monthly_salary_from_text" =>
        \A d \in Statements :
            (d.kind \in {"month_reversed", "week_reversed"} /\ arg = StatementArg(d))
                => ret = ClaimedEstimate(d)
-----------------------------------------------------------------------------
(* C25, C26 *)

\* C25 speaks of a fence that leaves fewer than 3 of n >= 4 values. No sample
\* has one: the fence is above Q3, Q3 is at least the value at position
\* floor(0.75 * (n - 1)) + 1 >= 3 of the sorted sample, so that value and the
\* ones before it are within the fence. With Q3 > Q1 the values counted are
\* the 3 or more within the fence, and the test of lines 56-57 is never true.
C25_FenceKeepsThree ==
    (pc = "salary_stats" /\ Len(Sample(arg)) >= 4) =>
        LET s == Sample(arg)
            cut == BelowFence(s)
        IN  Quartile4(s, 3) > Quartile4(s, 1) => (Len(cut) >= 3 /\ ret.count = Len(cut))

\* C26: a non-empty result is the summary of the k smallest values of the
\* sample s remaining after the floor, for k = count >= 1: min is the
\* smallest value of s, max the k-th smallest, avg the mean of these k values
\* (rounded to 2 decimals), and min <= median <= max, min <= avg <= max.
C26_OnlyHighSideTrimmed ==
    (pc = "salary_stats" /\ ret.count > 0) =>
        LET s == Sample(arg)
            k == ret.count
        IN  /\ k >= 1 /\ k <= Len(s)
            /\ ret.min = Num(s[1]) /\ s[1] >= Rub(13000)
            /\ ret.max = Num(s[k])
            /\ IsRounded(ret.avg.v, Sum(SubSeq(s, 1, k)), k)
            /\ ret.min.v <= ret.median.v /\ ret.median.v <= ret.max.v
            /\ ret.min.v <= ret.avg.v /\ ret.avg.v <= ret.max.v

\* A value under the floor and an outlier on the high side are both gone,
\* and the minimum is the smallest value that passed the floor
C26_Witness ==
    /\ pc = "salary_stats"
    /\ Len(arg) = 4 /\ arg[1].salary_avg = Num(Rub(12999))
    /\ Sample(arg) = <<Rub(40000), Rub(45000), Rub(300000)>>
    /\ ret.count = 2 /\ ret.min = Num(Rub(40000)) /\ ret.max = Num(Rub(45000))
-----------------------------------------------------------------------------
(* hh_parser_ver2.fetch_vacancies: the paging loop over the hh.ru API.

   arg is the call and the API it talks to: pages is the argument `pages`
   (None or an integer), total the page count the API reports, silent the
   pages whose response carries no "pages" key (read as 0 by data.get), and
   failing the pages whose response makes raise_for_status raise.
   state holds the locals page and items, and the responses received so far,
   each with the page asked for and the items it carried. *)

\* The largest page index the API is asked for, and the most items on a page
MaxPage == 3
MaxPageItems == 1

\* data.get("items", []) of the response to page p with k items
page_items(p, k) == [j \in 1..k |-> [page |-> p, item |-> j]]

\* int(data.get("pages", 0)) of the response to page p
total_pages(p) == IF p \in arg.silent THEN 0 ELSE arg.total

\* The two breaks of the loop, lines 88-92; a variant whose second break
\* compares page with pages
stops_after_page_not_count(page, total, pages) ==
    \/ total # 0 /\ page >= total - 1
    \/ pages # None /\ page >= pages.v
stops_after(page, total, pages) ==
    \/ total # 0 /\ page >= total - 1
    \/ pages # None /\ page + 1 >= pages.v

FetchCalls ==
    [pages : {None} \cup {Num(n) : n \in -1..MaxPage + 1},
     total : 0..MaxPage + 1,
     silent : SUBSET (0..MaxPage),
     failing : {{}} \cup {{p} : p \in 0..MaxPage}]

InitFetch == pc = "start" /\ arg \in FetchCalls /\ ret = None /\ state = None

\* Lines 69-78: the locals before the first pass of the loop
FetchVacancies ==
    /\ pc = "start"
    /\ pc' = "while"
    /\ state' = [page |-> 0, items |-> <<>>, responses |-> <<>>]
    /\ UNCHANGED <<arg, ret>>

\* Lines 80-94: one pass of the loop whose response is good: the items are
\* appended, and the loop ends with `return items` or goes on to the next page
GetPage ==
    /\ pc = "while"
    /\ state.page <= MaxPage
    /\ state.page \notin arg.failing
    /\ \E k \in 0..MaxPageItems :
        LET got == page_items(state.page, k)
            items == state.items \o got
            responses == Append(state.responses, [page |-> state.page, items |-> got])
        IN  IF stops_after(state.page, total_pages(state.page), arg.pages)
            THEN /\ pc' = "done"
                 /\ ret' = items
                 /\ state' = [page |-> state.page, items |-> items, responses |-> responses]
            ELSE /\ pc' = "while"
                 /\ ret' = ret
                 /\ state' = [page |-> state.page + 1, items |-> items,
                              responses |-> responses]
    /\ UNCHANGED arg

\* Line 83: raise_for_status raises, the call ends with the exception
GetPageRaises ==
    /\ pc = "while"
    /\ state.page <= MaxPage
    /\ state.page \in arg.failing
    /\ pc' = "raised"
    /\ ret' = Raised
    /\ state' = [state EXCEPT !.responses = Append(@, [page |-> state.page, items |-> Raised])]
    /\ UNCHANGED arg

NextFetch == FetchVacancies \/ GetPage \/ GetPageRaises

SpecFetch == InitFetch /\ [][NextFetch]_vars

\* Every response arrives: the client has a timeout of 20 seconds
FairFetch == SpecFetch /\ WF_vars(NextFetch)
-----------------------------------------------------------------------------
(* C27 *)

\* The items of the responses, one page after the other
RECURSIVE ItemsOf(_)
ItemsOf(responses) ==
    IF responses = <<>> THEN <<>> ELSE Head(responses).items \o ItemsOf(Tail(responses))

\* The page asked for last may end the call, by the stop rule of the claim
ClaimedStop(p) ==
    \/ total_pages(p) > 0 /\ p >= total_pages(p) - 1
    \/ arg.pages # None /\ p + 1 >= arg.pages.v

\* What holds of the pages asked for at every moment of a call
PagesInOrder ==
    pc \in {"while", "done", "raised"} =>
        LET asked == state.responses
            n == Len(asked)
        IN  /\ \A i \in 1..n : asked[i].page = i - 1
            /\ \A i \in 1..n - 1 : ~ClaimedStop(asked[i].page)
            /\ (arg.pages # None /\ arg.pages.v >= 1) => n <= arg.pages.v
            /\ pc = "while" => state.page = n
            /\ pc = "done" => /\ n >= 1 /\ ClaimedStop(asked[n].page)
                              /\ ret = ItemsOf(asked)

\* The calls the claim says end: `pages` is given, or every response reports
\* a positive page count
EndsByClaim == arg.pages # None \/ (arg.total > 0 /\ arg.silent = {})

\* C27: the pages asked for are 0, 1, 2, ... in order, none of them but the
\* last meets the stop rule (the reported page count T is positive and
\* p >= T - 1, or pages is given and p + 1 >= pages), at most `pages`
\* requests are made when pages >= 1, the result is the items of the pages in
\* that order, and a call with `pages` given or a positive reported page count
\* comes to its end.
C27_PagesInOrderUntilStop ==
    /\ []PagesInOrder
    /\ [](EndsByClaim => <>(pc \in {"done", "raised"}))

\* Three pages were asked for and the third ended the call, though the API
\* reported 4 pages
C27_Witness ==
    /\ pc = "done"
    /\ arg.pages = Num(3) /\ arg.total = 4 /\ arg.silent = {}
    /\ Len(state.responses) = 3 /\ Len(ret) = 3
-----------------------------------------------------------------------------
(* hh_snapshot_scheduler.HHSchedulerState: the background loop, start, stop
   and run_once, as the asyncio event loop runs them: one coroutine at a time,
   each step from one await to the next.

   state is the HHSchedulerState object with
     running, last_run_utc, last_success_utc, last_saved_path, last_error
            the fields of the dataclass;
     _stop  whether the asyncio.Event is set;
     _task  the index in tasks of the task start() created last, 0 for None;
     tasks  the tasks made by asyncio.create_task(self._loop()), each at
            "created" (not yet run), "fetch" (in run_once, awaiting the API),
            "wait" (in wait_for) or "done", with the local `now` of its
            run_once and how that run_once ended;
     posts  the calls of run_once by POST /hh-snapshot/run, in the same way;
     clock  the time of _utc_timestamp(), in seconds. *)

MaxTasks == 2
MaxPosts == 1
MaxClock == 1

\* str(saved) of a snapshot saved at the second ts: hh_vacancies_<ts>.txt
SavedPath(ts) == [t |-> "path", at |-> ts]

Job(pc_, now, ended) == [pc |-> pc_, now |-> now, ended |-> ended]

\* The dataclass defaults, lines 93-103
HHSchedulerState ==
    [running |-> FALSE, last_run_utc |-> None, last_success_utc |-> None,
     last_saved_path |-> None, last_error |-> None, _task |-> 0, _stop |-> FALSE,
     tasks |-> <<>>, posts |-> <<>>, clock |-> 0]

InitScheduler == pc = "start" /\ arg = None /\ ret = None /\ state = HHSchedulerState

\* install_hh_snapshot_scheduler: the object is made and the routes are up
Install ==
    /\ pc = "start"
    /\ pc' = "installed"
    /\ UNCHANGED <<arg, ret, state>>

\* A second passes
Tick ==
    /\ pc = "installed"
    /\ state.clock < MaxClock
    /\ state' = [state EXCEPT !.clock = @ + 1]
    /\ UNCHANGED <<pc, arg, ret>>

\* self._task and not self._task.done()
task_alive(s) == s._task # 0 /\ s.tasks[s._task].pc # "done"

\* start() that makes a task whatever the last one does
started_unguarded(s) ==
    [s EXCEPT !._stop = FALSE,
              !.tasks = Append(@, Job("created", None, "none")),
              !._task = Len(s.tasks) + 1]

\* start(), lines 133-137
started(s) ==
    IF task_alive(s) THEN s
    ELSE [s EXCEPT !._stop = FALSE,
                   !.tasks = Append(@, Job("created", None, "none")),
                   !._task = Len(s.tasks) + 1]

Start ==
    /\ pc = "installed"
    /\ Len(started(state).tasks) <= MaxTasks
    /\ state' = started(state)
    /\ UNCHANGED <<pc, arg, ret>>

\* stop(), lines 139-142: the event is set; the gather that follows waits for
\* the task and changes nothing
Stop ==
    /\ pc = "installed"
    /\ state' = [state EXCEPT !._stop = TRUE]
    /\ UNCHANGED <<pc, arg, ret>>

\* run_once up to its await, lines 106-110
run_begun(s) == [s EXCEPT !.last_run_utc = Num(s.clock), !.last_error = None]

\* run_once that stamps the success with the time of its end
run_saved_at_its_end(s, now) ==
    [s EXCEPT !.last_success_utc = Num(s.clock), !.last_saved_path = SavedPath(s.clock)]

\* run_once after the await when fetch and save were good, lines 110-115
run_saved(s, now) ==
    [s EXCEPT !.last_success_utc = now, !.last_saved_path = SavedPath(s.clock)]

\* `while not self._stop.is_set()` and what follows it, for the task i: into
\* run_once, or out of the loop through `finally`
loop_turn(s, i) ==
    IF s._stop
    THEN [s EXCEPT !.running = FALSE, !.tasks[i] = Job("done", @.now, @.ended)]
    ELSE [run_begun(s) EXCEPT !.tasks[i] = Job("fetch", Num(s.clock), "none")]

\* The task begins to run: lines 118-122
loop_entered(s, i) == loop_turn([s EXCEPT !.running = TRUE], i)

LoopStarts(i) ==
    /\ state.tasks[i].pc = "created"
    /\ state' = loop_entered(state, i)

\* run_once of the loop returns, and the loop waits: lines 122, 125-126
LoopRunSaved(i) ==
    /\ state.tasks[i].pc = "fetch"
    /\ state' = [run_saved(state, state.tasks[i].now) EXCEPT
                    !.tasks[i] = Job("wait", @.now, "saved")]

\* An exception that ends the loop
loop_run_raised_ends(s, i) ==
    [s EXCEPT !.last_error = Str, !.running = FALSE,
              !.tasks[i] = Job("done", @.now, "raised")]

\* run_once of the loop raises, in the fetch or in the save: lines 123-126
loop_run_raised(s, i) ==
    [s EXCEPT !.last_error = Str, !.tasks[i] = Job("wait", @.now, "raised")]

LoopRunRaises(i) ==
    /\ state.tasks[i].pc = "fetch"
    /\ state' = loop_run_raised(state, i)

\* wait_for ends, by the event when it is set and by the timeout when it is
\* not, and the loop turns: lines 126-128, 121
LoopWakes(i) ==
    /\ state.tasks[i].pc = "wait"
    /\ state' = loop_turn(state, i)

Loop ==
    /\ pc = "installed"
    /\ \E i \in 1..Len(state.tasks) :
          LoopStarts(i) \/ LoopRunSaved(i) \/ LoopRunRaises(i) \/ LoopWakes(i)
    /\ UNCHANGED <<pc, arg, ret>>

\* POST /hh-snapshot/run, lines 175-178: run_once up to its await
PostRun ==
    /\ pc = "installed"
    /\ Len(state.posts) < MaxPosts
    /\ state' = [run_begun(state) EXCEPT
                    !.posts = Append(@, Job("fetch", Num(state.clock), "none"))]
    /\ UNCHANGED <<pc, arg, ret>>

\* The run_once of a POST returns
PostRunSaved ==
    /\ pc = "installed"
    /\ \E j \in 1..Len(state.posts) :
          /\ state.posts[j].pc = "fetch"
          /\ state' = [run_saved(state, state.posts[j].now) EXCEPT
                          !.posts[j] = Job("done", @.now, "saved")]
    /\ UNCHANGED <<pc, arg, ret>>

\* The run_once of a POST raises: the exception goes to the caller
PostRunRaises ==
    /\ pc = "installed"
    /\ \E j \in 1..Len(state.posts) :
          /\ state.posts[j].pc = "fetch"
          /\ state' = [state EXCEPT !.posts[j] = Job("done", @.now, "raised")]
    /\ UNCHANGED <<pc, arg, ret>>

NextScheduler ==
    Install \/ Tick \/ Start \/ Stop \/ Loop \/ PostRun \/ PostRunSaved \/ PostRunRaises

SpecScheduler == InitScheduler /\ [][NextScheduler]_vars

\* The event loop runs every task that can run, the fetch ends by its timeout
\* of 30 seconds at the latest, and wait_for by its own
FairScheduler == SpecScheduler /\ WF_vars(Loop)
-----------------------------------------------------------------------------
(* C28, C29, C30 *)

\* The steps of the loop task i, read off two successive states
LeavesCreated(i) ==
    /\ i <= Len(state.tasks)
    /\ state.tasks[i].pc = "created" /\ state'.tasks[i].pc # "created"
RunRaised(i) ==
    /\ i <= Len(state.tasks)
    /\ state.tasks[i].pc = "fetch" /\ state'.tasks[i].ended = "raised"
RunSaved(i) ==
    /\ i <= Len(state.tasks)
    /\ state.tasks[i].pc = "fetch" /\ state'.tasks[i].ended = "saved"
LeavesWait(i) ==
    /\ i <= Len(state.tasks)
    /\ state.tasks[i].pc = "wait" /\ state'.tasks[i].pc # "wait"

\* What each step of a loop task does, by the claim
LoopStepsAsClaimed ==
    \A i \in 1..MaxTasks :
        /\ (LeavesCreated(i) /\ ~state._stop)
              => /\ state'.tasks[i].pc = "fetch"
                 /\ state'.last_run_utc = Num(state.clock)
                 /\ state'.running
        /\ RunRaised(i)
              => /\ state'.last_error # None
                 /\ state'.tasks[i].pc = "wait"
                 /\ state'.running
        /\ (LeavesWait(i) /\ ~state._stop)
              => /\ state'.tasks[i].pc = "fetch"
                 /\ state'.last_run_utc = Num(state.clock)
        /\ ((LeavesWait(i) \/ LeavesCreated(i)) /\ state._stop)
              => /\ state'.tasks[i].pc = "done"
                 /\ ~state'.running

Waiting(i) == i <= Len(state.tasks) /\ state.tasks[i].pc = "wait"
Fetching(i) == i <= Len(state.tasks) /\ state.tasks[i].pc = "fetch"
Alive(i) == i <= Len(state.tasks) /\ state.tasks[i].pc # "done"
Ended(i) == i <= Len(state.tasks) /\ state.tasks[i].pc = "done"

\* C28: a loop task that begins to run while stop is not requested goes
\* straight into run_once; an exception of run_once is put in last_error and
\* the loop goes on to its wait; from the wait it goes into run_once again
\* while stop is not requested, and it does so in the end; once stop is
\* requested the loop ends and running is False.
C28_LoopSurvivesErrorsUntilStop ==
    /\ [][LoopStepsAsClaimed]_vars
    /\ \A i \in 1..MaxTasks :
          /\ (Waiting(i) /\ ~state._stop) ~> (Fetching(i) \/ state._stop)
          /\ (Alive(i) /\ state._stop) ~> (Ended(i) /\ ~state.running)

\* The first run_once of the loop raised; the loop waits, not stopped
C28_Witness ==
    /\ pc = "installed"
    /\ Len(state.tasks) = 1
    /\ state.tasks[1] = Job("wait", Num(0), "raised")
    /\ state.last_error # None /\ state.running /\ ~state._stop
    /\ state.last_success_utc = None

\* C29: at most one loop task is not done, and a task is made only when
\* there is no task yet or the last one is done.
C29_AtMostOneLoopTask ==
    /\ [](pc = "installed" =>
            Cardinality({i \in 1..Len(state.tasks) : state.tasks[i].pc # "done"}) <= 1)
    /\ [][Len(state'.tasks) > Len(state.tasks)
            => (state._task = 0 \/ state.tasks[state._task].pc = "done")]_vars

\* start() after stop(): the first task is done and the second is alive
C29_Witness ==
    /\ pc = "installed"
    /\ Len(state.tasks) = 2
    /\ state.tasks[1].pc = "done" /\ state.tasks[2].pc = "fetch"
    /\ state._task = 2 /\ state.running

\* The stamps of the last success
Stamps(s) == <<s.last_success_utc, s.last_saved_path>>

\* A run_once, of a loop task or of a POST, that ends in this step: saved or
\* raised, and the `now` it began with
EndsNow(how, now) ==
    \/ \E i \in 1..Len(state.tasks) :
          /\ state.tasks[i].pc = "fetch" /\ state'.tasks[i].ended = how
          /\ state.tasks[i].now = now
    \/ \E j \in 1..Len(state.posts) :
          /\ state.posts[j].pc = "fetch" /\ state'.posts[j].ended = how
          /\ state.posts[j].now = now

StampsInStep ==
    /\ Stamps(state') # Stamps(state)
          => /\ EndsNow("saved", state'.last_success_utc)
             /\ state'.last_saved_path # None
    /\ (\E now \in {Num(t) : t \in 0..MaxClock} : EndsNow("raised", now))
          => Stamps(state') = Stamps(state)

\* C30: last_saved_path is set exactly when last_success_utc is;
\* last_success_utc is never later than last_run_utc; the two stamps change
\* only in the step in which a run_once ends after its fetch and save, and
\* last_success_utc is then the time that run began; a run_once that raises
\* leaves both as they were.
C30_SuccessStampsConsistent ==
    /\ [](pc = "installed" =>
            /\ (state.last_saved_path # None) <=> (state.last_success_utc # None)
            /\ state.last_success_utc # None
                  => /\ state.last_run_utc # None
                     /\ state.last_success_utc.v <= state.last_run_utc.v)
    /\ [][StampsInStep]_vars

\* A run begun at second 0 was saved at second 1, after another had begun in
\* that second
C30_Witness ==
    /\ pc = "installed"
    /\ state.last_success_utc = Num(0)
    /\ state.last_run_utc = Num(1)
    /\ state.last_saved_path = SavedPath(1)

====
